---- MODULE Spec2Model ----
(***************************************************************************)
(* Verification model of the bugprone-macro-condition tracker             *)
(* (MacroConditionCallbacks, latest revision in                           *)
(* clang-tools-extra/clang-tidy/ClangTidyForceLinker.h, lines 196-602).   *)
(*                                                                         *)
(* The tracker observes preprocessing callbacks in source order, keeps    *)
(* one ConditionMacro record (Name, States) per macro name, and replays   *)
(* every record's States at EndOfMainFile to emit diagnostics.            *)
(***************************************************************************)
EXTENDS Integers, Sequences, FiniteSets, TLC

\* ------------------------------------------------------------------------
\* Bounds of the exploration
\* ------------------------------------------------------------------------
\* number of directives of a main file that mentions one macro name
MaxDirectives == 5
\* number of directives of a main file that mentions two macro names
MaxDirectivesTwoNames == 3
\* number of directives of a main file that mentions only the name N
MaxNestedDirectives == 4

\* the macro names a main file may mention
Names == {"M", "N"}

\* ------------------------------------------------------------------------
\* Source locations, ranges, usages
\* ------------------------------------------------------------------------
\* SourceRange(Loc): a range holding one location
LocRange(loc) == <<loc, loc>>

\* SourceRange::fullyContains
fullyContains(R, other) == R[1] <= other[1] /\ R[2] >= other[2]

\* SourceRange::getBegin
getBegin(R) == R[1]

\* struct MacroUsage
MacroUsage(state, range) == [State |-> state, Range |-> range]

\* raw token texts of an #if / #elif condition; "defined X" stands for
\* defined(X) or defined X, "&&" and "0" for tokens that are no identifiers
Conditions(S) ==
    {<<"0">>}
    \cup {<<n>> : n \in S}
    \cup {<<"defined", n>> : n \in S}
    \cup {<<"defined", n, "&&", m>> : n \in S, m \in S}

\* tok::raw_identifier
isRawIdentifier(tok) == tok \in Names \cup {"defined"}

VARIABLES
    \* SmallVector<ConditionMacro> Macros: records [Name, States]
    Macros,
    \* std::vector<MacroUsage> ActiveCondition
    ActiveCondition,
    \* the next unused source location of the main file
    clock,
    \* the #if / #elif the preprocessor is evaluating: its defined-operator
    \* callbacks are delivered before its own callback
    pending,
    \* the macro names the main file mentions
    names,
    \* the text of every #if / #elif whose callback has run: [Range, toks]
    conditions,
    \* number of directives lexed so far
    ndirectives,
    \* the diagnostics emitted by EndOfMainFile, in emission order
    diags,
    \* EndOfMainFile has run
    done

vars == <<Macros, ActiveCondition, clock, pending, names, conditions,
          ndirectives, diags, done>>

NoPending == [kind |-> "none"]

\* ------------------------------------------------------------------------
\* State of FunctionExpressionMatcher (modernize-macro-to-function)
\* ------------------------------------------------------------------------
VARIABLES
    \* ArrayRef<Token> Definition: the replacement tokens, by spelling
    Definition,
    \* ArrayRef<const IdentifierInfo *> AllowedIdentifiers
    AllowedIdentifiers,
    \* ArrayRef<Token>::iterator Current: 1-based index, End is Len + 1
    Current,
    \* what match() returned: "not called", "true" or "false"
    matched,
    \* match() read a token at End
    overrun

matcherVars == <<Definition, AllowedIdentifiers, Current, matched, overrun>>

\* no matcher has been constructed
NoMatcher ==
    /\ Definition = <<>>
    /\ AllowedIdentifiers = <<>>
    /\ Current = 1
    /\ matched = "not called"
    /\ overrun = FALSE

\* ------------------------------------------------------------------------
\* State of MacroToFunctionCallbacks (modernize-macro-to-function)
\* ------------------------------------------------------------------------
VARIABLES
    \* std::vector<FunctionMacro> Macros: [Name, Directive]
    FunctionMacros,
    \* the #define and #undef directives the preprocessor has delivered
    directives,
    \* the diagnostics of Check->diag, in emission order
    checkDiags,
    \* EndOfMainFile has run
    finished,
    \* the main file has been lexed to its end and the AST matchers run
    parsed

checkVars == <<FunctionMacros, directives, checkDiags, finished, parsed>>

\* the callbacks as constructed, before the first directive
NoCheck ==
    /\ FunctionMacros = <<>>
    /\ directives = <<>>
    /\ checkDiags = <<>>
    /\ finished = FALSE
    /\ parsed = FALSE

macroToFunctionVars == <<matcherVars, checkVars>>

\* ------------------------------------------------------------------------
\* State of PPTreeBuilderCallbacks and of a PPTreeVisitor (utils/PPTree)
\* ------------------------------------------------------------------------
VARIABLES
    \* PPTree Tree: the PPDirective objects in the order they were made,
    \* [Kind, List]; List names the PPDirectiveList that holds the object:
    \* 0 is Tree.Directives, n is the member Directives of object n
    Tree,
    \* std::vector<PPDirectiveList *> DirectiveStack
    DirectiveStack,
    \* PPDirectiveList *Directives
    Directives,
    \* the preprocessor's stack of open conditional blocks:
    \* [Taken, FoundNonSkip, FoundElse]
    ConditionalStack,
    \* the callbacks the preprocessor has made, in order
    received,
    \* the objects a PPTreeVisitor passed to its hooks, in order
    Visited,
    \* "lexing", then "built" once EndOfMainFile has run, then "visited" once
    \* a visitor has walked the tree
    phase,
    \* the assertion of popDirectiveStack has failed
    assertFailed

treeVars == <<Tree, DirectiveStack, Directives, ConditionalStack, received,
              Visited, phase, assertFailed>>

\* the builder as constructed: DirectiveStack{&Tree.Directives}
NoTree ==
    /\ Tree = <<>>
    /\ DirectiveStack = <<0>>
    /\ Directives = 0
    /\ ConditionalStack = <<>>
    /\ received = <<>>
    /\ Visited = <<>>
    /\ phase = "lexing"
    /\ assertFailed = FALSE

\* ------------------------------------------------------------------------
\* Helpers of MacroConditionCallbacks
\* ------------------------------------------------------------------------
\* llvm::find_if(Macros, Name ==): index of the record, 0 for end()
FindMacro(Ms, name) ==
    IF \E i \in 1..Len(Ms) : Ms[i].Name = name
    THEN CHOOSE i \in 1..Len(Ms) :
             Ms[i].Name = name /\ \A j \in 1..(i - 1) : Ms[j].Name # name
    ELSE 0

\* States.push_back on record i
PushBackAt(Ms, i, usage) ==
    [Ms EXCEPT ![i].States = Append(@, usage)]

\* addNewReferencedMacro without the copy of ActiveCondition
addNewReferencedMacro_NoActiveCondition(Ms, AC, name, state, range) ==
    Append(Ms, [Name |-> name,
                States |-> <<MacroUsage("Undefined", range),
                             MacroUsage(state, range)>>])

addNewReferencedMacro(Ms, AC, name, state, range) ==
    Append(Ms, [Name |-> name,
                States |-> <<MacroUsage("Undefined", range)>> \o AC
                           \o <<MacroUsage(state, range)>>])

\* nameReferenced without the search for an existing record
nameReferenced_AlwaysNew(Ms, AC, name, state, range) ==
    addNewReferencedMacro(Ms, AC, name, state, range)

\* find-or-create then push_back, as MacroDefined / Defined / nameReferenced do
nameReferenced(Ms, AC, name, state, range) ==
    LET It == FindMacro(Ms, name)
    IN IF It = 0
       THEN addNewReferencedMacro(Ms, AC, name, state, range)
       ELSE PushBackAt(Ms, It, MacroUsage(state, range))

\* the part of pushState that extends every record
pushState(Ms, state, range) ==
    [i \in 1..Len(Ms) |->
        [Ms[i] EXCEPT !.States = Append(@, MacroUsage(state, range))]]

\* number of usages kept in front of the inserted one: the position after
\* the last usage whose range is not fully contained in range
InsertPos(States, range) ==
    LET outside == {k \in 1..Len(States) :
                       ~fullyContains(range, States[k].Range)}
    IN IF outside = {} THEN 0
       ELSE CHOOSE k \in outside : \A j \in outside : j <= k

InsertAt(States, pos, usage) ==
    SubSeq(States, 1, pos) \o <<usage>> \o SubSeq(States, pos + 1, Len(States))

\* pushStateContainingRange that appends the usage like pushState
pushStateContainingRange_AtBack(Ms, state, range) ==
    [i \in 1..Len(Ms) |->
        [Ms[i] EXCEPT !.States = Append(@, MacroUsage(state, range))]]

\* the part of pushStateContainingRange that extends every record
pushStateContainingRange(Ms, state, range) ==
    [i \in 1..Len(Ms) |->
        [Ms[i] EXCEPT !.States =
            IF @ = <<>>
            THEN <<MacroUsage(state, range)>>
            ELSE InsertAt(@, InsertPos(@, range), MacroUsage(state, range))]]

\* the raw re-lex of the condition text from token k on
RECURSIVE LexCondition(_, _, _, _, _, _)
LexCondition(Ms, AC, toks, k, InsideDefined, range) ==
    IF k > Len(toks) THEN Ms
    ELSE IF ~isRawIdentifier(toks[k])
         THEN LexCondition(Ms, AC, toks, k + 1, InsideDefined, range)
    ELSE IF toks[k] = "defined"
         THEN LexCondition(Ms, AC, toks, k + 1, TRUE, range)
    ELSE IF ~InsideDefined
         THEN LexCondition(nameReferenced(Ms, AC, toks[k], "TestedValue", range),
                           AC, toks, k + 1, InsideDefined, range)
    ELSE LexCondition(Ms, AC, toks, k + 1, InsideDefined, range)

macrosReferencedInCondition(Ms, AC, toks, range) ==
    LexCondition(Ms, AC, toks, 1, FALSE, range)

\* ------------------------------------------------------------------------
\* EndOfMainFile: the replay of one record
\* ------------------------------------------------------------------------
ValueTestedMsg == "Macro '%0' value was tested without being defined."
CheckedMsg == "Macro '%0' defined with a value and checked for definition"

Diag(loc, msg, name) == [Loc |-> loc, Msg |-> msg, Name |-> name]

\* the locals of the loop body of EndOfMainFile before the first usage
ReplayInit ==
    [HasValue |-> FALSE, IsDefined |-> FALSE,
     TestedValue |-> FALSE, TestedDefined |-> FALSE,
     HasValueTestedDefined |-> FALSE, HasValueTestedDefinedLoc |-> 0,
     TestedValueStack |-> <<>>, TestedDefinedStack |-> <<>>,
     Out |-> <<>>, EmptyPop |-> FALSE]

Front(seq) == SubSeq(seq, 1, Len(seq) - 1)
Back(seq) == seq[Len(seq)]

\* the Undefined case that keeps HasValue
OnUndefined_KeepsValue(s) == [s EXCEPT !.IsDefined = FALSE]

\* case MacroState::Undefined
OnUndefined(s) == [s EXCEPT !.IsDefined = FALSE, !.HasValue = FALSE]

\* case MacroState::DefinedEmpty
OnDefinedEmpty(s) == [s EXCEPT !.HasValue = FALSE, !.IsDefined = TRUE]

\* the DefinedValue case that also flags a macro already tested for definition
OnDefinedValue_Retroactive(s) ==
    [s EXCEPT !.HasValue = TRUE, !.IsDefined = TRUE,
              !.HasValueTestedDefined = @ \/ s.TestedDefined]

\* case MacroState::DefinedValue
OnDefinedValue(s) == [s EXCEPT !.HasValue = TRUE, !.IsDefined = TRUE]

\* the TestedDefined case without the HasValue test
OnTestedDefined_AnyValue(s, Usage) ==
    IF ~s.TestedDefined
    THEN [s EXCEPT !.HasValueTestedDefined = TRUE,
                   !.HasValueTestedDefinedLoc = getBegin(Usage.Range),
                   !.TestedDefined = TRUE]
    ELSE [s EXCEPT !.TestedDefined = TRUE]

\* case MacroState::TestedDefined
OnTestedDefined(s, Usage) ==
    IF s.HasValue /\ ~s.TestedDefined
    THEN [s EXCEPT !.HasValueTestedDefined = TRUE,
                   !.HasValueTestedDefinedLoc = getBegin(Usage.Range),
                   !.TestedDefined = TRUE]
    ELSE [s EXCEPT !.TestedDefined = TRUE]

\* the TestedValue case with the IsDefined test inverted
OnTestedValue_WhenDefined(s, Usage, name) ==
    IF s.IsDefined
    THEN [s EXCEPT !.Out = Append(@, Diag(getBegin(Usage.Range),
                                          ValueTestedMsg, name)),
                   !.TestedValue = TRUE]
    ELSE [s EXCEPT !.TestedValue = TRUE]

\* case MacroState::TestedValue
OnTestedValue(s, Usage, name) ==
    IF ~s.IsDefined
    THEN [s EXCEPT !.Out = Append(@, Diag(getBegin(Usage.Range),
                                          ValueTestedMsg, name)),
                   !.TestedValue = TRUE]
    ELSE [s EXCEPT !.TestedValue = TRUE]

\* the If case that also clears the two marks
OnIf_Resets(s) ==
    [s EXCEPT !.TestedValueStack = Append(@, s.TestedValue),
              !.TestedDefinedStack = Append(@, s.TestedDefined),
              !.TestedValue = FALSE,
              !.TestedDefined = FALSE]

\* case MacroState::If
OnIf(s) ==
    [s EXCEPT !.TestedValueStack = Append(@, s.TestedValue),
              !.TestedDefinedStack = Append(@, s.TestedDefined)]

\* the IfDef case without the mark it sets
OnIfDef_LikeIf(s) ==
    [s EXCEPT !.TestedValueStack = Append(@, s.TestedValue),
              !.TestedDefinedStack = Append(@, s.TestedDefined)]

\* case MacroState::IfDef
OnIfDef(s) ==
    [s EXCEPT !.TestedValueStack = Append(@, s.TestedValue),
              !.TestedDefinedStack = Append(@, s.TestedDefined),
              !.TestedDefined = TRUE]

\* the ElIf / Else case that clears TestedValue only
OnElse_KeepsTestedDefined(s) == [s EXCEPT !.TestedValue = FALSE]

\* case MacroState::ElIf, case MacroState::Else
OnElse(s) == [s EXCEPT !.TestedValue = FALSE, !.TestedDefined = FALSE]

\* case MacroState::ElIfDef
OnElIfDef(s) == [s EXCEPT !.TestedDefined = TRUE]

\* case MacroState::EndIf; back() and pop_back() of an empty vector are
\* undefined: junk is the value such a read yields
OnEndIf(s, junk) ==
    IF s.TestedValueStack = <<>> \/ s.TestedDefinedStack = <<>>
    THEN [s EXCEPT !.TestedValue = junk, !.TestedDefined = junk,
                   !.EmptyPop = TRUE]
    ELSE [s EXCEPT !.TestedValue = Back(s.TestedValueStack),
                   !.TestedValueStack = Front(@),
                   !.TestedDefined = Back(s.TestedDefinedStack),
                   !.TestedDefinedStack = Front(@)]

\* one iteration of the switch over Usage.State
ReplayStep(s, Usage, name, junk) ==
    CASE Usage.State = "Undefined" -> OnUndefined(s)
      [] Usage.State = "DefinedEmpty" -> OnDefinedEmpty(s)
      [] Usage.State = "DefinedValue" -> OnDefinedValue(s)
      [] Usage.State = "TestedDefined" -> OnTestedDefined(s, Usage)
      [] Usage.State = "TestedValue" -> OnTestedValue(s, Usage, name)
      [] Usage.State = "If" -> OnIf(s)
      [] Usage.State = "IfDef" -> OnIfDef(s)
      [] Usage.State \in {"ElIf", "Else"} -> OnElse(s)
      [] Usage.State = "ElIfDef" -> OnElIfDef(s)
      [] Usage.State = "EndIf" -> OnEndIf(s, junk)

\* the locals after the first k usages of States
RECURSIVE ReplayPrefix(_, _, _, _)
ReplayPrefix(States, k, name, junk) ==
    IF k = 0 THEN ReplayInit
    ELSE ReplayStep(ReplayPrefix(States, k - 1, name, junk), States[k],
                    name, junk)

\* the diagnostics of one record: those of the loop, then the final one
RecordDiags(Macro, junk) ==
    LET s == ReplayPrefix(Macro.States, Len(Macro.States), Macro.Name, junk)
    IN IF s.HasValueTestedDefined
       THEN Append(s.Out, Diag(s.HasValueTestedDefinedLoc, CheckedMsg,
                               Macro.Name))
       ELSE s.Out

\* the diagnostics of the records i..Len(Ms), in record order
RECURSIVE AllDiags(_, _, _)
AllDiags(Ms, i, junk) ==
    IF i > Len(Ms) THEN <<>>
    ELSE RecordDiags(Ms[i], junk) \o AllDiags(Ms, i + 1, junk)

\* ------------------------------------------------------------------------
\* The preprocessor: which directive may come next
\* ------------------------------------------------------------------------
StartsCond(Usage) == Usage.State \in {"If", "IfDef"}

\* number of open conditional blocks
Depth == Cardinality({k \in 1..Len(ActiveCondition) :
                         StartsCond(ActiveCondition[k])})

\* the number of directives of the main file
Limit == IF names = {"N"} THEN MaxNestedDirectives
         ELSE IF Cardinality(names) = 1 THEN MaxDirectives
         ELSE MaxDirectivesTwoNames

\* a directive is lexed only between the callbacks of two directives
CanEnd == ~done /\ pending = NoPending /\ ndirectives < Limit

\* the main file closes every block it opens: a directive other than #endif
\* leaves room for the #endif of every open block
CanLex == CanEnd /\ ndirectives + Depth < Limit

CanOpen == CanLex /\ ndirectives + Depth + 1 < Limit

\* #elif, #elifdef, #elifndef and #else belong to an open block that has had
\* no #else yet
CanSibling ==
    /\ CanLex
    /\ ActiveCondition # <<>>
    /\ Back(ActiveCondition).State # "Else"

\* index of the first defined keyword of toks at or after k, 0 if none
NextDefined(toks, k) ==
    LET at == {j \in k..Len(toks) : toks[j] = "defined"}
    IN IF at = {} THEN 0 ELSE CHOOSE j \in at : \A i \in at : j <= i

\* the preprocessor starts on an #if or #elif at location clock: token k of
\* the condition lies at clock + k. A skipped #elif is not evaluated.
EvaluateDirectiveExpression(kind, toks, evaluated) ==
    /\ IF kind = "If" THEN CanOpen /\ evaluated ELSE CanSibling
    /\ pending' = [kind |-> kind, toks |-> toks, base |-> clock,
                   next |-> 1, evaluated |-> evaluated]
    /\ clock' = clock + Len(toks) + 1
    /\ ndirectives' = ndirectives + 1
    /\ UNCHANGED macroToFunctionVars
    /\ UNCHANGED treeVars
    /\ UNCHANGED <<Macros, ActiveCondition, names, conditions, diags, done>>

\* every defined operator of the condition has had its callback
OperatorsDelivered ==
    \/ ~pending.evaluated
    \/ NextDefined(pending.toks, pending.next) = 0

ConditionRange == <<pending.base + 1, pending.base + Len(pending.toks)>>

\* ------------------------------------------------------------------------
\* The callbacks of MacroConditionCallbacks
\* ------------------------------------------------------------------------
\* MacroDefined without the isFunctionLike / isBuiltinMacro return
MacroDefined_Any(name, tokenCount, isFunctionLike, isBuiltinMacro, inFile) ==
    /\ CanLex
    /\ LET Loc == LocRange(clock)
           State == IF tokenCount = 0 THEN "DefinedEmpty" ELSE "DefinedValue"
       IN Macros' =
            IF ~inFile THEN Macros
            ELSE nameReferenced(Macros, ActiveCondition, name, State, Loc)
    /\ clock' = clock + 1
    /\ ndirectives' = ndirectives + 1
    /\ UNCHANGED macroToFunctionVars
    /\ UNCHANGED treeVars
    /\ UNCHANGED <<ActiveCondition, pending, names, conditions, diags, done>>

MacroDefined(name, tokenCount, isFunctionLike, isBuiltinMacro, inFile) ==
    /\ CanLex
    /\ LET Loc == LocRange(clock)
           State == IF tokenCount = 0 THEN "DefinedEmpty" ELSE "DefinedValue"
       IN Macros' =
            IF ~inFile THEN Macros
            ELSE IF isFunctionLike \/ isBuiltinMacro THEN Macros
            ELSE nameReferenced(Macros, ActiveCondition, name, State, Loc)
    /\ clock' = clock + 1
    /\ ndirectives' = ndirectives + 1
    /\ UNCHANGED macroToFunctionVars
    /\ UNCHANGED treeVars
    /\ UNCHANGED <<ActiveCondition, pending, names, conditions, diags, done>>

Defined(name) ==
    /\ ~done
    /\ pending # NoPending
    /\ pending.evaluated
    /\ LET j == NextDefined(pending.toks, pending.next)
       IN /\ j # 0
          /\ name = pending.toks[j + 1]
          /\ Macros' = nameReferenced(Macros, ActiveCondition, name,
                                      "TestedDefined",
                                      <<pending.base + j, pending.base + j + 1>>)
          /\ pending' = [pending EXCEPT !.next = j + 2]
    /\ UNCHANGED macroToFunctionVars
    /\ UNCHANGED treeVars
    /\ UNCHANGED <<ActiveCondition, clock, names, conditions, ndirectives,
                   diags, done>>

MacroUndefined(name) ==
    /\ CanLex
    /\ LET Loc == LocRange(clock)
           It == FindMacro(Macros, name)
       IN Macros' =
            IF It = 0
            THEN addNewReferencedMacro(Macros, ActiveCondition, name,
                                       "TestedDefined", Loc)
            ELSE PushBackAt(Macros, It, MacroUsage("Undefined", Loc))
    /\ clock' = clock + 1
    /\ ndirectives' = ndirectives + 1
    /\ UNCHANGED macroToFunctionVars
    /\ UNCHANGED treeVars
    /\ UNCHANGED <<ActiveCondition, pending, names, conditions, diags, done>>

\* If and Elif: pushStateContainingRange, then macrosReferencedInCondition
ConditionCallback(kind, state) ==
    /\ ~done
    /\ pending # NoPending
    /\ pending.kind = kind
    /\ OperatorsDelivered
    /\ ActiveCondition' =
           Append(ActiveCondition, MacroUsage(state, ConditionRange))
    /\ Macros' = macrosReferencedInCondition(
                     pushStateContainingRange(Macros, state, ConditionRange),
                     ActiveCondition', pending.toks, ConditionRange)
    /\ pending' = NoPending
    /\ conditions' = Append(conditions, [Range |-> ConditionRange,
                                         toks |-> pending.toks])
    /\ UNCHANGED macroToFunctionVars
    /\ UNCHANGED treeVars
    /\ UNCHANGED <<clock, names, ndirectives, diags, done>>

If == ConditionCallback("If", "If")

Elif == ConditionCallback("ElIf", "ElIf")

\* Ifdef, Ifndef and the Elifdef / Elifndef overloads that carry the name
\* token: pushState, then nameReferenced
NameCallback(state, name) ==
    /\ ActiveCondition' =
           Append(ActiveCondition, MacroUsage(state, LocRange(clock)))
    /\ Macros' = nameReferenced(pushState(Macros, state, LocRange(clock)),
                                ActiveCondition', name, "TestedDefined",
                                LocRange(clock))
    /\ clock' = clock + 2
    /\ ndirectives' = ndirectives + 1
    /\ UNCHANGED macroToFunctionVars
    /\ UNCHANGED treeVars
    /\ UNCHANGED <<pending, names, conditions, diags, done>>

Ifdef(name) ==
    /\ CanOpen
    /\ NameCallback("IfDef", name)

Ifndef(name) ==
    /\ CanOpen
    /\ NameCallback("IfDef", name)

Elifdef(name) ==
    /\ CanSibling
    /\ NameCallback("ElIfDef", name)

Elifndef(name) ==
    /\ CanSibling
    /\ NameCallback("ElIfDef", name)

\* the Elifdef / Elifndef overloads of a skipped directive, which carry the
\* range of the name: pushState, then macrosReferencedInCondition
RangeCallback(name) ==
    /\ CanSibling
    /\ ActiveCondition' =
           Append(ActiveCondition, MacroUsage("ElIfDef", LocRange(clock)))
    /\ Macros' = macrosReferencedInCondition(
                     pushState(Macros, "ElIfDef", LocRange(clock)),
                     ActiveCondition', <<name>>, LocRange(clock + 1))
    /\ clock' = clock + 2
    /\ ndirectives' = ndirectives + 1
    /\ UNCHANGED macroToFunctionVars
    /\ UNCHANGED treeVars
    /\ UNCHANGED <<pending, names, conditions, diags, done>>

ElifdefSkipped(name) == RangeCallback(name)

ElifndefSkipped(name) == RangeCallback(name)

Else ==
    /\ CanSibling
    /\ ActiveCondition' =
           Append(ActiveCondition, MacroUsage("Else", LocRange(clock)))
    /\ Macros' = pushState(Macros, "Else", LocRange(clock))
    /\ clock' = clock + 1
    /\ ndirectives' = ndirectives + 1
    /\ UNCHANGED macroToFunctionVars
    /\ UNCHANGED treeVars
    /\ UNCHANGED <<pending, names, conditions, diags, done>>

\* the position without std::prev: the erase starts after the If / IfDef
LastStart_AfterStart(AC) ==
    1 + CHOOSE k \in 1..Len(AC) :
            StartsCond(AC[k]) /\ \A j \in (k + 1)..Len(AC) : ~StartsCond(AC[j])

\* index of the last usage of AC that starts a condition
LastStart(AC) ==
    CHOOSE k \in 1..Len(AC) :
        StartsCond(AC[k]) /\ \A j \in (k + 1)..Len(AC) : ~StartsCond(AC[j])

\* the preprocessor reports an #endif only for an open block
Endif ==
    /\ CanEnd
    /\ Depth > 0
    /\ ActiveCondition' =
           SubSeq(ActiveCondition, 1, LastStart(ActiveCondition) - 1)
    /\ Macros' = pushState(Macros, "EndIf", LocRange(clock))
    /\ clock' = clock + 1
    /\ ndirectives' = ndirectives + 1
    /\ UNCHANGED macroToFunctionVars
    /\ UNCHANGED treeVars
    /\ UNCHANGED <<pending, names, conditions, diags, done>>

\* the main file ends outside every conditional block
EndOfMainFile ==
    /\ ~done
    /\ pending = NoPending
    /\ ActiveCondition = <<>>
    /\ \E junk \in BOOLEAN : diags' = AllDiags(Macros, 1, junk)
    /\ done' = TRUE
    /\ UNCHANGED macroToFunctionVars
    /\ UNCHANGED treeVars
    /\ UNCHANGED <<Macros, ActiveCondition, clock, pending, names, conditions,
                   ndirectives>>

Init ==
    /\ Macros = <<>>
    /\ ActiveCondition = <<>>
    /\ clock = 1
    /\ pending = NoPending
    /\ names \in {{"M"}, Names}
    /\ conditions = <<>>
    /\ ndirectives = 0
    /\ diags = <<>>
    /\ done = FALSE
    /\ NoMatcher
    /\ NoCheck
    /\ NoTree

Next ==
    \/ \E name \in names, tokenCount \in {0, 1},
          isFunctionLike \in BOOLEAN, isBuiltinMacro \in BOOLEAN,
          inFile \in BOOLEAN :
          MacroDefined(name, tokenCount, isFunctionLike, isBuiltinMacro, inFile)
    \/ \E name \in names : MacroUndefined(name)
    \/ \E toks \in Conditions(names) :
          EvaluateDirectiveExpression("If", toks, TRUE)
    \/ \E toks \in Conditions(names), evaluated \in BOOLEAN :
          EvaluateDirectiveExpression("ElIf", toks, evaluated)
    \/ \E name \in names : Defined(name)
    \/ If
    \/ Elif
    \/ \E name \in names : Ifdef(name)
    \/ \E name \in names : Ifndef(name)
    \/ \E name \in names : Elifdef(name)
    \/ \E name \in names : Elifndef(name)
    \/ \E name \in names : ElifdefSkipped(name)
    \/ \E name \in names : ElifndefSkipped(name)
    \/ Else
    \/ Endif
    \/ EndOfMainFile

Spec == Init /\ [][Next]_<<vars, macroToFunctionVars, treeVars>>

\* the main files that mention only N
InitNested ==
    /\ Macros = <<>>
    /\ ActiveCondition = <<>>
    /\ clock = 1
    /\ pending = NoPending
    /\ names = {"N"}
    /\ conditions = <<>>
    /\ ndirectives = 0
    /\ diags = <<>>
    /\ done = FALSE
    /\ NoMatcher
    /\ NoCheck
    /\ NoTree

SpecNested == InitNested /\ [][Next]_<<vars, macroToFunctionVars, treeVars>>

\* ------------------------------------------------------------------------
\* Vocabulary of the properties
\* ------------------------------------------------------------------------
Tracked(n) == FindMacro(Macros, n) # 0

StatesOf(n) == Macros[FindMacro(Macros, n)].States

\* the diagnostics that name macro n, in emission order
DiagsFor(n) == SelectSeq(diags, LAMBDA d : d.Name = n)

\* number of diagnostics for n located at loc
DiagsAt(n, loc) ==
    Cardinality({k \in 1..Len(diags) : diags[k].Name = n /\ diags[k].Loc = loc})

Roles(States) == [k \in 1..Len(States) |-> States[k].State]

PositionsOf(States, roles) == {k \in 1..Len(States) : States[k].State \in roles}

DefineRoles == {"Undefined", "DefinedEmpty", "DefinedValue"}

\* position of the #define with a value that is in force at usage j, 0 if the
\* macro is undefined or defined empty there
ValueDefinition(States, j) ==
    LET defs == {k \in 1..(j - 1) : States[k].State \in DefineRoles}
        last == CHOOSE k \in defs : \A i \in defs : i <= k
    IN IF defs = {} THEN 0
       ELSE IF States[last].State = "DefinedValue" THEN last ELSE 0

\* the usages of States that test definedness while a value is in force
ValueDefinedTests(States) ==
    {j \in PositionsOf(States, {"TestedDefined"}) :
        ValueDefinition(States, j) # 0}

\* a TestedDefined usage recorded by the Defined callback spans the operator
\* and its operand; one recorded by #ifdef and the like spans one location
ByOperator(Usage) == Usage.Range[1] # Usage.Range[2]

\* number of blocks open after the first k usages
OpenAfter(States, k) ==
    Cardinality(PositionsOf(SubSeq(States, 1, k), {"If", "IfDef"}))
    - Cardinality(PositionsOf(SubSeq(States, 1, k), {"EndIf"}))

\* the usage that opened the block which the EndIf at position k closes (the
\* last one before k that opened a block at the level k closes), 0 if none
MatchingStart(States, k) ==
    LET level == OpenAfter(States, k) + 1
        starts == {o \in 1..(k - 1) :
                      StartsCond(States[o]) /\ OpenAfter(States, o) = level}
    IN IF starts = {} THEN 0
       ELSE CHOOSE o \in starts : \A i \in starts : i <= o

\* positions of the identifier tokens of a condition that are not the operand
\* right after the defined keyword
BareReferences(toks) ==
    {k \in 1..Len(toks) :
        /\ toks[k] \in Names
        /\ (k = 1 \/ toks[k - 1] # "defined")}

\* macro n has no definition in force at location loc
NotDefinedAt(n, loc) ==
    \/ ~Tracked(n)
    \/ LET St == StatesOf(n)
           defs == {k \in PositionsOf(St, DefineRoles) : St[k].Range[2] < loc}
           last == CHOOSE k \in defs : \A i \in defs : i <= k
       IN defs = {} \/ St[last].State = "Undefined"

\* ------------------------------------------------------------------------
\* Properties
\* ------------------------------------------------------------------------

\* every definedness test of States is written with the defined operator and
\* lies in the condition of a conditional of its own, which no block encloses
OwnConditionals(States) ==
    /\ \A k \in 1..Len(States) : OpenAfter(States, k) <= 1
    /\ \A j \in PositionsOf(States, {"TestedDefined"}) :
          ByOperator(States[j]) /\ OpenAfter(States, j) = 1
    /\ \A i, j \in PositionsOf(States, {"TestedDefined"}) :
          i # j => Cardinality(PositionsOf(SubSeq(States, 1, i), {"If"}))
                   # Cardinality(PositionsOf(SubSeq(States, 1, j), {"If"}))

\* C1: for every macro that is #define'd with a non-empty value and afterwards
\* tested for definedness (by the defined operator, in conditionals of their
\* own), EndOfMainFile emits exactly one diagnostic located at the macro's
\* definition site.
C1_DefinitionSiteDiagnostic ==
    done =>
      \A n \in Names : (Tracked(n) /\ OwnConditionals(StatesOf(n))) =>
        \A j \in ValueDefinedTests(StatesOf(n)) :
          DiagsAt(n, getBegin(
              StatesOf(n)[ValueDefinition(StatesOf(n), j)].Range)) = 1

\* C2: a macro defined with a non-empty value and then tested by the defined
\* operator at k sites, each in its own conditional, gets exactly one
\* diagnostic located at each of the k test sites.
C2_OneDiagnosticPerTestSite ==
    done =>
      \A n \in Names : (Tracked(n) /\ OwnConditionals(StatesOf(n))) =>
        \A j \in ValueDefinedTests(StatesOf(n)) :
          DiagsAt(n, getBegin(StatesOf(n)[j].Range)) = 1

\* C3: every definedness test of M, by defined(M) or by #ifdef, #ifndef,
\* #elifdef or #elifndef, that is replayed while M's latest definition has a
\* non-empty value makes EndOfMainFile emit a diagnostic for M.
C3_EveryValueDefinedTestReported ==
    done =>
      \A n \in Names : Tracked(n) =>
        (ValueDefinedTests(StatesOf(n)) # {} =>
            \E k \in 1..Len(diags) :
                diags[k].Name = n /\ diags[k].Msg = CheckedMsg)

\* macro n is defined, only with an empty replacement list, and tested only
\* for definedness
DefinedEmptyOnly(n) ==
    /\ Tracked(n)
    /\ PositionsOf(StatesOf(n), {"DefinedEmpty"}) # {}
    /\ PositionsOf(StatesOf(n), {"DefinedValue", "TestedValue"}) = {}

\* C4: a macro whose only definitions have an empty replacement list produces
\* zero diagnostics at end of file, however many times and in whatever nesting
\* it is tested with defined(M).
C4_EmptyDefinitionNeverReported ==
    done => \A n \in Names : DefinedEmptyOnly(n) => DiagsFor(n) = <<>>

\* a macro defined empty, then tested by defined(M) in an #if and again in an
\* #if nested in it, has been replayed
C4_Witness ==
    /\ done
    /\ DefinedEmptyOnly("M")
    /\ \E i, j \in PositionsOf(StatesOf("M"), {"TestedDefined"}) :
          /\ i < j
          /\ PositionsOf(StatesOf("M"), {"DefinedEmpty"}) \cap 1..i # {}
          /\ OpenAfter(StatesOf("M"), i) = 1
          /\ OpenAfter(StatesOf("M"), j) = 2

NeverDefined(n) ==
    Tracked(n) /\ PositionsOf(StatesOf(n), {"DefinedEmpty", "DefinedValue"}) = {}

\* C5 as stated: a macro that is never defined but is tested via defined(M) or
\* via a bare value reference produces zero diagnostics at end of file.
C5_NeverDefinedNeverReported ==
    done => \A n \in Names : NeverDefined(n) => DiagsFor(n) = <<>>

\* the warnings of the recorded value tests of States from position k on
RECURSIVE ValueTestWarnings(_, _, _)
ValueTestWarnings(States, k, n) ==
    IF k > Len(States) THEN <<>>
    ELSE (IF States[k].State = "TestedValue"
          THEN <<Diag(getBegin(States[k].Range), ValueTestedMsg, n)>>
          ELSE <<>>) \o ValueTestWarnings(States, k + 1, n)

\* C5 amended: a macro that is never defined is never reported as checked for
\* definition: tested only via defined(M) it produces zero diagnostics, and
\* its diagnostics are exactly one "value was tested without being defined"
\* warning per recorded value test, located at that test's condition.
C5_NeverDefinedOnlyValueTestWarned ==
    done =>
      \A n \in Names : NeverDefined(n) =>
        DiagsFor(n) = ValueTestWarnings(StatesOf(n), 1, n)

\* a never defined macro tested via defined(M) and via a bare reference has
\* been replayed
C5_Witness ==
    /\ done
    /\ NeverDefined("M")
    /\ PositionsOf(StatesOf("M"), {"TestedDefined"}) # {}
    /\ PositionsOf(StatesOf("M"), {"TestedValue"}) # {}
    /\ Len(DiagsFor("M")) = 1

\* C6: a value test (bare reference in an #if / #elif condition) of a macro
\* that is not defined at that point produces a warning for that macro
\* located at that condition.
C6_UndefinedValueTestWarned ==
    done =>
      \A c \in 1..Len(conditions) :
        \A k \in BareReferences(conditions[c].toks) :
          NotDefinedAt(conditions[c].toks[k], getBegin(conditions[c].Range)) =>
            \E d \in 1..Len(diags) :
                diags[d] = Diag(getBegin(conditions[c].Range), ValueTestedMsg,
                                conditions[c].toks[k])

\* C7: during the replay a definedness test made inside one branch of an
\* #if / #else group does not leave the macro marked as definedness-tested in
\* the sibling branch nor after the group's #endif: the #else clears the mark
\* and the #endif restores the mark the macro had before the group.
C7_ScopeOfTestedDefined ==
    done =>
      \A i \in 1..Len(Macros), junk \in BOOLEAN :
        LET St == Macros[i].States
            R(k) == ReplayPrefix(St, k, Macros[i].Name, junk)
        IN \A k \in 1..Len(St) :
             /\ St[k].State = "Else" => ~R(k).TestedDefined
             /\ St[k].State = "EndIf" =>
                  LET o == MatchingStart(St, k)
                  IN o # 0 /\ R(k).TestedDefined = R(o - 1).TestedDefined

\* a macro unmarked before an #if / #else group and tested by defined(M) in
\* the #if branch has been replayed through the #else and the #endif
C7_Witness ==
    /\ done
    /\ Tracked("M")
    /\ LET St == StatesOf("M")
           R(k) == ReplayPrefix(St, k, "M", FALSE)
       IN \E o, t, e, x \in 1..Len(St) :
            /\ o < t /\ t < e /\ e < x
            /\ St[o].State = "If" /\ ~R(o - 1).TestedDefined
            /\ St[t].State = "TestedDefined" /\ R(e - 1).TestedDefined
            /\ St[e].State = "Else"
            /\ St[x].State = "EndIf" /\ MatchingStart(St, x) = o

\* the usages of "#define M 0", "#ifdef M", "#if M", "#endif", "#endif"
GronkRoles ==
    <<"Undefined", "DefinedValue", "IfDef", "TestedDefined", "If",
      "TestedValue", "EndIf", "EndIf">>

C9_NoDiagnosticWhenValueTestedToo ==
    done =>
      \A d \in 1..Len(diags), c \in 1..Len(conditions) :
        (/\ diags[d].Msg = CheckedMsg
         /\ fullyContains(conditions[c].Range, LocRange(diags[d].Loc)))
        => \A k \in BareReferences(conditions[c].toks) :
              conditions[c].toks[k] # diags[d].Name

\* C10: MacroUndefined for a name that has no record creates no record and
\* leaves every record's history and ActiveCondition unchanged.
C10_UndefOfUntrackedIgnored ==
    [][\A n \in Names :
          (MacroUndefined(n) /\ ~Tracked(n)) =>
              (Macros' = Macros /\ ActiveCondition' = ActiveCondition)]_vars

\* number of TestedValue usages that the record of n holds for a condition
\* spanning range
ValueTestsRecorded(n, range) ==
    IF ~Tracked(n) THEN 0
    ELSE Cardinality({k \in PositionsOf(StatesOf(n), {"TestedValue"}) :
                         StatesOf(n)[k].Range = range})

\* C11: for an #if / #elif condition whose callback has run, exactly one
\* TestedValue usage is recorded for each identifier token of the condition
\* that is not the operand right after defined, also for identifiers that
\* follow an earlier defined(...) of the same condition.
C11_OneValueTestPerBareIdentifier ==
    \A c \in 1..Len(conditions), n \in Names :
        ValueTestsRecorded(n, conditions[c].Range) =
            Cardinality({k \in BareReferences(conditions[c].toks) :
                            conditions[c].toks[k] = n})

\* C12: MacroDefined for a function-like macro or a builtin macro is ignored:
\* no record is created or extended, Macros and ActiveCondition are
\* unchanged. Stated by contraposition: a step that changes Macros or
\* ActiveCondition is no MacroDefined of a function-like or builtin macro.
C12_FunctionLikeOrBuiltinIgnored ==
    [][(Macros' # Macros \/ ActiveCondition' # ActiveCondition) =>
       \A n \in Names, tokenCount \in {0, 1}, isFunctionLike \in BOOLEAN,
          isBuiltinMacro \in BOOLEAN, inFile \in BOOLEAN :
          (isFunctionLike \/ isBuiltinMacro) =>
             ~MacroDefined(n, tokenCount, isFunctionLike, isBuiltinMacro,
                           inFile)]_vars

\* a macro is tracked with a definition at location 1 and a usage at
\* location 3, and the directive at location 2 was a #define that left no
\* usage: it was ignored
C12_Witness ==
    /\ ActiveCondition = <<>>
    /\ clock = 4
    /\ ndirectives = 3
    /\ \E n \in names :
          /\ Tracked(n)
          /\ Roles(StatesOf(n)) = <<"Undefined", "DefinedValue", "Undefined">>
          /\ StatesOf(n)[2].Range = LocRange(1)
          /\ StatesOf(n)[3].Range = LocRange(3)

\* the definedness tests of States that precede its first #define with a value
EarlyTests(States) ==
    {j \in PositionsOf(States, {"TestedDefined"}) :
        PositionsOf(States, {"DefinedValue"}) \cap 1..j = {}}

\* C13 as stated: a definedness test of M (here: by defined(M)) that occurs
\* before M's first #define with a non-empty value is still reported at end
\* of file once that later definition has been recorded.
C13_EarlierTestReportedRetroactively ==
    done =>
      \A n \in Names : Tracked(n) =>
        ((/\ \E j \in EarlyTests(StatesOf(n)) : ByOperator(StatesOf(n)[j])
          /\ PositionsOf(StatesOf(n), {"DefinedValue"}) # {})
         => \E k \in 1..Len(diags) :
                diags[k].Name = n /\ diags[k].Msg = CheckedMsg)

\* C13 amended: a later definition does not make an earlier test
\* contradictory. Every "defined with a value and checked for definition"
\* diagnostic is located at a definedness test replayed while a #define with
\* a value is in force, so none is located at a test that precedes the
\* macro's first #define with a value.
C13_OnlyTestsAfterValueDefinitionReported ==
    done =>
      \A k \in 1..Len(diags) :
        diags[k].Msg = CheckedMsg =>
          /\ Tracked(diags[k].Name)
          /\ \E j \in ValueDefinedTests(StatesOf(diags[k].Name)) :
                getBegin(StatesOf(diags[k].Name)[j].Range) = diags[k].Loc
          /\ \A j \in EarlyTests(StatesOf(diags[k].Name)) :
                getBegin(StatesOf(diags[k].Name)[j].Range) # diags[k].Loc

\* M was tested by defined(M), defined with a value only afterwards, and the
\* replay has emitted nothing for it
C13_Witness ==
    /\ done
    /\ Tracked("M")
    /\ \E j \in EarlyTests(StatesOf("M")) :
          /\ ByOperator(StatesOf("M")[j])
          /\ PositionsOf(StatesOf("M"), {"DefinedValue"}) \cap
                 j..Len(StatesOf("M")) # {}
    /\ DiagsFor("M") = <<>>

\* the block that usage k of States lies in: the number of top-level blocks
\* opened up to k, 0 if k lies in no block or in a nested one
TopLevelBlock(States, k) ==
    IF OpenAfter(States, k) # 1 THEN 0
    ELSE Cardinality({o \in 1..k : StartsCond(States[o])
                                     /\ OpenAfter(States, o) = 1})

\* C14: a macro that is checked for definition by defined(M) in one condition
\* and for its value in another condition (two conditionals of their own,
\* neither nested in the other) results in a warning at end of file.
C14_DefinitionAndValueTestsWarned ==
    done =>
      \A n \in Names : Tracked(n) =>
        ((\E i \in PositionsOf(StatesOf(n), {"TestedDefined"}),
             j \in PositionsOf(StatesOf(n), {"TestedValue"}) :
             /\ ByOperator(StatesOf(n)[i])
             /\ TopLevelBlock(StatesOf(n), i) # 0
             /\ TopLevelBlock(StatesOf(n), j) # 0
             /\ TopLevelBlock(StatesOf(n), i) # TopLevelBlock(StatesOf(n), j))
         => DiagsFor(n) # <<>>)

\* ------------------------------------------------------------------------
\* modernize-macro-to-function: tokens of a macro body
\* ------------------------------------------------------------------------
\* A token is its spelling.  The numeric literals, character by character
\* (Token::getLiteralData, Token::getLength).
LiteralData ==
    ("1" :> <<"1">>) @@ ("100" :> <<"1", "0", "0">>)
    @@ ("0x10" :> <<"0", "x", "1", "0">>)
    @@ ("1.5" :> <<"1", ".", "5">>) @@ ("1e5" :> <<"1", "e", "5">>)
    @@ ("0x1.8p3" :> <<"0", "x", "1", ".", "8", "p", "3">>)
    @@ ("0x1P3" :> <<"0", "x", "1", "P", "3">>)

\* tok::identifier tokens; a keyword such as static_cast is not one
Identifiers ==
    {"x_", "y_", "x", "y", "t_", "val_", "sqrt", "std", "complex"}

\* Token::isLiteral
isLiteral(Tok) == Tok \in DOMAIN LiteralData

\* Token::isAnyIdentifier
isAnyIdentifier(Tok) == Tok \in Identifiers

\* std::toupper on the characters a literal can hold
toupper(C) ==
    CASE C = "x" -> "X"
      [] C = "p" -> "P"
      [] C = "e" -> "E"
      [] C = "i" -> "I"
      [] OTHER -> C

\* a literal token that is neither a floating-point nor a complex literal
isIntegralConstant(Token) ==
    LET Begin == LiteralData[Token]
        Length == Len(Begin)
    IN  IF Length > 2 /\ Begin[1] = "0" /\ toupper(Begin[2]) = "X"
        THEN \A k \in 3..Length :
                ~(Begin[k] = "." \/ toupper(Begin[k]) = "P")
        ELSE \A k \in 1..Length :
                ~(\/ Begin[k] = "."
                  \/ toupper(Begin[k]) = "E"
                  \/ toupper(Begin[k]) = "I")

\* ------------------------------------------------------------------------
\* FunctionExpressionMatcher: the recursive-descent recognizer
\* ------------------------------------------------------------------------
\* Every member function returns its bool, the cursor it leaves in Current,
\* and whether it read *Current while Current == End.
Result(ok, cur, ub) == [ok |-> ok, cur |-> cur, ub |-> ub]

\* Definition.end() of the token list T
End(T) == Len(T) + 1

\* reading *Current with Current == End is undefined
ReadAtEnd(c) == Result(FALSE, c, TRUE)

RECURSIVE Chain(_, _, _, _, _, _)
RECURSIVE NonTerminalCall(_, _, _, _, _)
RECURSIVE ExprTable(_, _, _, _)
RECURSIVE unaryOperator_Repeated(_, _)

\* ++Current; return Current != End;
advance(T, c) == Result(c + 1 # End(T), c + 1, FALSE)

consume(Kind, T, c) ==
    IF c = End(T) THEN ReadAtEnd(c)
    ELSE IF T[c] = Kind THEN Result(TRUE, c + 1, FALSE)
    ELSE Result(FALSE, c, FALSE)

\* ExprAt[c] is what expr() returns when it is called with Current = c; every
\* call of expr() inside the grammar functions is made at a later cursor
\* than the one the caller started from.
expr(ExprAt, c) == ExprAt[c]

\* the loop of nonTerminalChainedExpr once (this->*NonTerminal)() returned n
ChainAfter(NonTerminal, IsKind, ExprAt, T, A, n) ==
    IF ~n.ok THEN n ELSE Chain(NonTerminal, IsKind, ExprAt, T, A, n.cur)

\* a loop that stops after its first operator
Chain_Single(NonTerminal, IsKind, ExprAt, T, A, c) ==
    IF c = End(T) THEN Result(TRUE, c, FALSE)
    ELSE IF T[c] \notin IsKind THEN Result(TRUE, c, FALSE)
    ELSE IF ~advance(T, c).ok THEN advance(T, c)
    ELSE NonTerminalCall(NonTerminal, ExprAt, T, A, c + 1)

\* the while loop of nonTerminalChainedExpr
Chain(NonTerminal, IsKind, ExprAt, T, A, c) ==
    IF c = End(T) THEN Result(TRUE, c, FALSE)
    ELSE IF T[c] \notin IsKind THEN Result(TRUE, c, FALSE)
    ELSE IF ~advance(T, c).ok THEN advance(T, c)
    ELSE ChainAfter(NonTerminal, IsKind, ExprAt, T, A,
                    NonTerminalCall(NonTerminal, ExprAt, T, A, c + 1))

\* nonTerminalChainedExpr once the first (this->*NonTerminal)() returned
FirstThenChain(NonTerminal, IsKind, ExprAt, T, A, first) ==
    IF ~first.ok THEN first
    ELSE IF first.cur = End(T) THEN first
    ELSE Chain(NonTerminal, IsKind, ExprAt, T, A, first.cur)

\* NonTerminal names the member function; IsKind is the set of token kinds
nonTerminalChainedExpr(NonTerminal, IsKind, ExprAt, T, A, c) ==
    FirstThenChain(NonTerminal, IsKind, ExprAt, T, A,
                   NonTerminalCall(NonTerminal, ExprAt, T, A, c))

\* a unaryOperator that advances over every unary operator in a row
unaryOperator_Repeated(T, c) ==
    IF c = End(T) THEN ReadAtEnd(c)
    ELSE IF T[c] \in {"-", "+", "~", "!"}
    THEN IF ~advance(T, c).ok THEN advance(T, c)
         ELSE unaryOperator_Repeated(T, c + 1)
    ELSE Result(TRUE, c, FALSE)

\* Advance over unary operators.
unaryOperator(T, c) ==
    IF c = End(T) THEN ReadAtEnd(c)
    ELSE IF T[c] \in {"-", "+", "~", "!"} THEN advance(T, c)
    ELSE Result(TRUE, c, FALSE)

\* an operand branch that accepts every identifier
Operand_AnyIdentifier(T, A, c) ==
    IF isLiteral(T[c]) \/ isAnyIdentifier(T[c])
    THEN Result(TRUE, c + 1, FALSE)
    ELSE Result(FALSE, c, FALSE)

\* the operand branch of unaryExpr, after consume(l_paren) returned false
Operand(T, A, c) ==
    IF ~isLiteral(T[c])
    THEN IF isAnyIdentifier(T[c]) /\ \E i \in DOMAIN A : T[c] = A[i]
         THEN Result(TRUE, c + 1, FALSE)
         ELSE Result(FALSE, c, FALSE)
    ELSE Result(TRUE, c + 1, FALSE)

\* the parenthesis branch without its first comparison of Current with End
Parenthesized_NoEndCheck(ExprAt, T, c) ==
    IF ~expr(ExprAt, c).ok THEN expr(ExprAt, c)
    ELSE IF expr(ExprAt, c).cur = End(T)
    THEN Result(FALSE, expr(ExprAt, c).cur, FALSE)
    ELSE consume(")", T, expr(ExprAt, c).cur)

\* the parenthesis branch of unaryExpr, after consume(l_paren) moved to c
Parenthesized(ExprAt, T, c) ==
    IF c = End(T) THEN Result(FALSE, c, FALSE)
    ELSE IF ~expr(ExprAt, c).ok THEN expr(ExprAt, c)
    ELSE IF expr(ExprAt, c).cur = End(T)
    THEN Result(FALSE, expr(ExprAt, c).cur, FALSE)
    ELSE consume(")", T, expr(ExprAt, c).cur)

\* unaryExpr after unaryOperator() returned true with Current = c
Primary(ExprAt, T, A, c) ==
    IF consume("(", T, c).ub THEN consume("(", T, c)
    ELSE IF consume("(", T, c).ok THEN Parenthesized(ExprAt, T, c + 1)
    ELSE Operand(T, A, c)

unaryExpr(ExprAt, T, A, c) ==
    IF ~unaryOperator(T, c).ok THEN unaryOperator(T, c)
    ELSE Primary(ExprAt, T, A, unaryOperator(T, c).cur)

multiplicativeExpr(ExprAt, T, A, c) ==
    nonTerminalChainedExpr("unaryExpr", {"*", "/", "%"}, ExprAt, T, A, c)

additiveExpr(ExprAt, T, A, c) ==
    nonTerminalChainedExpr("multiplicativeExpr", {"+", "-"}, ExprAt, T, A, c)

shiftExpr(ExprAt, T, A, c) ==
    nonTerminalChainedExpr("additiveExpr", {"<<", ">>"}, ExprAt, T, A, c)

\* compareExpr once its first shiftExpr() returned s
Spaceship(ExprAt, T, A, s) ==
    IF ~s.ok THEN s
    ELSE IF s.cur = End(T) THEN s
    ELSE IF T[s.cur] = "<=>"
    THEN IF ~advance(T, s.cur).ok THEN advance(T, s.cur)
         ELSE shiftExpr(ExprAt, T, A, s.cur + 1)
    ELSE s

compareExpr(ExprAt, T, A, c) ==
    Spaceship(ExprAt, T, A, shiftExpr(ExprAt, T, A, c))

relationalExpr(ExprAt, T, A, c) ==
    nonTerminalChainedExpr("compareExpr", {"<", ">", "<=", ">="},
                           ExprAt, T, A, c)

equalityExpr(ExprAt, T, A, c) ==
    nonTerminalChainedExpr("relationalExpr", {"==", "!="}, ExprAt, T, A, c)

andExpr(ExprAt, T, A, c) ==
    nonTerminalChainedExpr("equalityExpr", {"&"}, ExprAt, T, A, c)

exclusiveOrExpr(ExprAt, T, A, c) ==
    nonTerminalChainedExpr("andExpr", {"^"}, ExprAt, T, A, c)

inclusiveOrExpr(ExprAt, T, A, c) ==
    nonTerminalChainedExpr("exclusiveOrExpr", {"|"}, ExprAt, T, A, c)

logicalAndExpr(ExprAt, T, A, c) ==
    nonTerminalChainedExpr("inclusiveOrExpr", {"&&"}, ExprAt, T, A, c)

logicalOrExpr(ExprAt, T, A, c) ==
    nonTerminalChainedExpr("logicalAndExpr", {"||"}, ExprAt, T, A, c)

\* (this->*NonTerminal)()
NonTerminalCall(NonTerminal, ExprAt, T, A, c) ==
    CASE NonTerminal = "unaryExpr" -> unaryExpr(ExprAt, T, A, c)
      [] NonTerminal = "multiplicativeExpr" ->
            multiplicativeExpr(ExprAt, T, A, c)
      [] NonTerminal = "additiveExpr" -> additiveExpr(ExprAt, T, A, c)
      [] NonTerminal = "compareExpr" -> compareExpr(ExprAt, T, A, c)
      [] NonTerminal = "relationalExpr" -> relationalExpr(ExprAt, T, A, c)
      [] NonTerminal = "equalityExpr" -> equalityExpr(ExprAt, T, A, c)
      [] NonTerminal = "andExpr" -> andExpr(ExprAt, T, A, c)
      [] NonTerminal = "exclusiveOrExpr" -> exclusiveOrExpr(ExprAt, T, A, c)
      [] NonTerminal = "inclusiveOrExpr" -> inclusiveOrExpr(ExprAt, T, A, c)
      [] NonTerminal = "logicalAndExpr" -> logicalAndExpr(ExprAt, T, A, c)

\* the last operand of a conditional: advance() over the ':' at c, expr()
LastOperand(ExprAt, T, c) ==
    IF ~advance(T, c).ok THEN advance(T, c) ELSE expr(ExprAt, c + 1)

\* the middle operand of a conditional at c, its ':' and the last operand
MiddleOperand(ExprAt, T, c) ==
    IF ~expr(ExprAt, c).ok THEN expr(ExprAt, c)
    ELSE IF expr(ExprAt, c).cur = End(T)
    THEN Result(FALSE, expr(ExprAt, c).cur, FALSE)
    ELSE IF T[expr(ExprAt, c).cur] # ":"
    THEN Result(FALSE, expr(ExprAt, c).cur, FALSE)
    ELSE LastOperand(ExprAt, T, expr(ExprAt, c).cur)

\* a conditionalExpr without the gcc extension
Question_NoElision(ExprAt, T, l) ==
    IF ~l.ok THEN l
    ELSE IF l.cur = End(T) THEN l
    ELSE IF T[l.cur] = "?"
    THEN IF ~advance(T, l.cur).ok THEN advance(T, l.cur)
         ELSE MiddleOperand(ExprAt, T, l.cur + 1)
    ELSE l

\* conditionalExpr once logicalOrExpr() returned l
Question(ExprAt, T, l) ==
    IF ~l.ok THEN l
    ELSE IF l.cur = End(T) THEN l
    ELSE IF T[l.cur] = "?"
    THEN IF ~advance(T, l.cur).ok THEN advance(T, l.cur)
         \* A gcc extension allows x ? : y as a synonym for x ? x : y.
         ELSE IF T[l.cur + 1] = ":" THEN LastOperand(ExprAt, T, l.cur + 1)
         ELSE MiddleOperand(ExprAt, T, l.cur + 1)
    ELSE l

conditionalExpr(ExprAt, T, A, c) ==
    Question(ExprAt, T, logicalOrExpr(ExprAt, T, A, c))

\* What expr() returns from every cursor 1 .. End, filled in from End
\* downwards; known holds the cursors after c.
ExprTable(T, A, c, known) ==
    IF 1 \in DOMAIN known THEN known
    ELSE ExprTable(T, A, c - 1,
                   known @@ (c :> conditionalExpr(known, T, A, c)))

\* FunctionExpressionMatcher::expr() called with Current = Definition.begin()
FirstExpr(T, A) == expr(ExprTable(T, A, End(T), <<>>), 1)

\* a match() that does not compare Current with End
match_AnyPrefix(T, A) == FirstExpr(T, A)

\* expr() && Current == End, once expr() returned e
AtEnd(T, e) == Result(e.ok /\ e.cur = End(T), e.cur, e.ub)

\* return expr() && Current == End;
match(T, A) == AtEnd(T, FirstExpr(T, A))

\* ------------------------------------------------------------------------
\* The matcher on its own: one FunctionExpressionMatcher per behaviour
\* ------------------------------------------------------------------------
\* longest token list drawn over TokenAlphabet
MaxTokens == 3
\* longest token list drawn over NestingAlphabet
MaxNestingTokens == 5

\* one token of every kind the recognizer tells apart
TokenAlphabet ==
    {"1", "1.5", "x_", "sqrt", "(", ")", "~", "-", "*", "<<", "<=>", "<",
     "==", "&", "^", "|", "&&", "||", "?", ":", "::"}

\* the tokens that nest: parentheses and the conditional operator
NestingAlphabet == {"x_", "(", ")", "?", ":", "-"}

\* longest token list drawn over AllTokens
MaxShortTokens == 2

\* every operator the grammar functions name, and the operands
AllTokens ==
    TokenAlphabet
    \cup {"+", "!", "/", "%", ">>", ">", "<=", ">=", "!=", "100", "0x10"}

TokenLists(Alphabet, n) == UNION {[1..k -> Alphabet] : k \in 0..n}

\* macro bodies of the documentation and of the check's test, and the
\* shortest bodies with a token left over
Examples ==
    { [tokens |-> <<"(", "x_", ")", "*", "(", "x_", ")">>,
       params |-> <<"x_">>],
      [tokens |-> <<"(", "(", "x_", ")", "/", "100", ")">>,
       params |-> <<"x_">>],
      [tokens |-> <<"(", "x_", "+", "1", ")", "/", "(", "y_", "-", "1", ")">>,
       params |-> <<"x_", "y_">>],
      [tokens |-> <<"sqrt", "(", "(", "x_", ")", "*", "(", "x_", ")", "+",
                    "(", "y_", ")", "*", "(", "y_", ")", ")">>,
       params |-> <<"x_", "y_">>],
      [tokens |-> <<"std", "::", "complex", "<", "double", ">", "(", "x_",
                    ",", "y_", ")">>,
       params |-> <<"x_", "y_">>],
      [tokens |-> <<"static_cast", "<", "t_", ">", "(", "val_", ")">>,
       params |-> <<"t_", "val_">>],
      [tokens |-> <<"x", "y">>, params |-> <<"x", "y">>],
      [tokens |-> <<"(", "x", ")", "(", "y", ")">>, params |-> <<"x", "y">>],
      [tokens |-> <<"x", ")">>, params |-> <<"x">>],
      [tokens |-> <<"x_", "*", "0x1.8p3">>, params |-> <<"x_">>],
      [tokens |-> <<"x_", "*", "0x1P3">>, params |-> <<"x_">>],
      [tokens |-> <<"x_", "+", "1e5">>, params |-> <<"x_">>],
      [tokens |-> <<"x_", "+", "0x10">>, params |-> <<"x_">>] }

\* bodies with unary operators in a row or at the end, and bodies with a
\* complete, an elided, a nested and a cut-off conditional
OperatorExamples ==
    { [tokens |-> t, params |-> <<"x_", "y_">>] :
        t \in { <<"-", "-", "x_">>, <<"!", "!", "x_">>,
                <<"-", "(", "-", "x_", ")">>, <<"x_", "-", "-", "y_">>,
                <<"!", "(", "!", "x_", ")">>, <<"x_", "+", "~", "y_">>,
                <<"x_", "*", "~">>, <<"x_", "-", "!">>,
                <<"x_", "?", "y_", ":", "1">>, <<"x_", "?", ":", "y_">>,
                <<"x_", "?", "y_", ":", "1", "?", "x_", ":", "y_">>,
                <<"x_", "?", "y_", "?", "1", ":", "x_", ":", "y_">>,
                <<"x_", "||", "y_", "?">>, <<"x_", "?", "y_", "||", "1">>,
                <<"x_", "?", "y_", "1">>, <<"x_", "?", "y_", ")">>,
                <<"x_", "?", "y_", ":", "1", "?">>,
                <<"x_", "?", "y_", ":", "1", "?", "x_">> } }

MatcherInputs(long, nesting, short) ==
    Examples
    \cup OperatorExamples
    \cup {[tokens |-> t, params |-> <<"x_", "y_">>] :
             t \in TokenLists(TokenAlphabet, long)
                   \cup TokenLists(NestingAlphabet, nesting)
                   \cup TokenLists(AllTokens, short)}

\* the condition tracker is not involved
NoTracker ==
    /\ Macros = <<>>
    /\ ActiveCondition = <<>>
    /\ clock = 1
    /\ pending = NoPending
    /\ names = {"M"}
    /\ conditions = <<>>
    /\ ndirectives = 0
    /\ diags = <<>>
    /\ done = FALSE

\* FunctionExpressionMatcher Matcher(MacroTokens, Info->params())
FunctionExpressionMatcher(MacroTokens, params) ==
    /\ Definition = MacroTokens
    /\ AllowedIdentifiers = params
    /\ Current = 1
    /\ matched = "not called"
    /\ overrun = FALSE

\* Matcher.match(): a read at End leaves the outcome to the build
Match ==
    /\ matched = "not called"
    /\ \E r \in {match(Definition, AllowedIdentifiers)} :
           /\ Current' = r.cur
           /\ overrun' = r.ub
           /\ IF r.ub
              THEN matched' \in {"true", "false", "crash"}
              ELSE matched' = IF r.ok THEN "true" ELSE "false"
    /\ UNCHANGED <<Definition, AllowedIdentifiers>>
    /\ UNCHANGED checkVars
    /\ UNCHANGED vars
    /\ UNCHANGED treeVars

InitMatcher ==
    /\ NoTracker
    /\ NoCheck
    /\ NoTree
    /\ \E input \in MatcherInputs(MaxTokens, MaxNestingTokens,
                                  MaxShortTokens) :
          FunctionExpressionMatcher(input.tokens, input.params)

NextMatcher == Match

SpecMatcher == InitMatcher /\ [][NextMatcher]_<<vars, macroToFunctionVars, treeVars>>

\* longest token list drawn over AllTokens for the cursor's movements
MaxCursorTokens == 2
\* longest token list drawn over NestingAlphabet for the cursor's movements
MaxCursorNestingTokens == 4

\* the matchers whose every member function is followed from every cursor
InitCursor ==
    /\ NoTracker
    /\ NoCheck
    /\ NoTree
    /\ \E input \in MatcherInputs(0, MaxCursorNestingTokens, MaxCursorTokens) :
          FunctionExpressionMatcher(input.tokens, input.params)

SpecCursor == InitCursor /\ [][NextMatcher]_<<vars, macroToFunctionVars, treeVars>>

\* ------------------------------------------------------------------------
\* Claims about the matcher
\* ------------------------------------------------------------------------
\* match() has returned
MatchReturned == matched \in {"true", "false"}

\* token lists that are an expression followed by one more token or group
LeftoverExamples ==
    {<<"x", "y">>, <<"(", "x", ")", "(", "y", ")">>, <<"x", ")">>}

\* C15: match() returns true only with the cursor at the end of the token
\* list; a list with a token left after a complete expression, such as
\* `x y`, `(x)(y)` or `x )`, makes it return false.
C15_TrueOnlyWhenAllConsumed ==
    /\ matched = "true" => Current = End(Definition)
    /\ (MatchReturned /\ Definition \in LeftoverExamples)
          => matched = "false"
    /\ (MatchReturned /\ Current < End(Definition)) => matched = "false"

\* `x y` was matched: the expression `x` parsed and `y` was left over
C15_Witness ==
    /\ Definition = <<"x", "y">>
    /\ AllowedIdentifiers = <<"x", "y">>
    /\ matched = "false"
    /\ Current = 2

\* the names of AllowedIdentifiers
Allowed == {AllowedIdentifiers[i] : i \in DOMAIN AllowedIdentifiers}

\* some token of Definition is an identifier that is not allowed
HasOtherIdentifier ==
    \E i \in DOMAIN Definition :
        isAnyIdentifier(Definition[i]) /\ Definition[i] \notin Allowed

SquareBody == <<"(", "x_", ")", "*", "(", "x_", ")">>

PythagBody ==
    <<"sqrt", "(", "(", "x_", ")", "*", "(", "x_", ")", "+",
      "(", "y_", ")", "*", "(", "y_", ")", ")">>

HasFloatLiteral ==
    \E i \in DOMAIN Definition :
        isLiteral(Definition[i]) /\ ~isIntegralConstant(Definition[i])

\* C17: a literal is an operand only if it is an integer literal; a token
\* list with a floating-point literal (a `.`, or `.`/`P`/`p` in a hex
\* token) is rejected.
C17_OnlyIntegerLiterals ==
    (MatchReturned /\ HasFloatLiteral) => matched = "false"

\* C18: match() on an empty token list returns false, and does so without
\* reading a token.
C18_EmptyListReturnsFalse ==
    (Definition = <<>> /\ matched # "not called")
        => (matched = "false" /\ ~overrun)

\* The precedence grammar, level by level: 0 is the unary level, 12 the
\* conditional level.
LevelOperators(level) ==
    CASE level = 1 -> {"*", "/", "%"}
      [] level = 2 -> {"+", "-"}
      [] level = 3 -> {"<<", ">>"}
      [] level = 4 -> {"<=>"}
      [] level = 5 -> {"<", ">", "<=", ">="}
      [] level = 6 -> {"==", "!="}
      [] level = 7 -> {"&"}
      [] level = 8 -> {"^"}
      [] level = 9 -> {"|"}
      [] level = 10 -> {"&&"}
      [] level = 11 -> {"||"}

\* an integer literal or an allowed identifier
IsOperand(Tok) ==
    \/ isLiteral(Tok) /\ isIntegralConstant(Tok)
    \/ isAnyIdentifier(Tok) /\ Tok \in Allowed

RECURSIVE Derives(_, _, _)
\* the tokens Definition[i] .. Definition[j - 1] are an expression of the
\* given level
Derives(level, i, j) ==
    LET T == Definition
    IN  IF i >= j THEN FALSE
        ELSE IF level = 0
        THEN LET s == IF T[i] \in {"-", "+", "~", "!"} THEN i + 1 ELSE i
             IN  \/ j = s + 1 /\ IsOperand(T[s])
                 \/ /\ j >= s + 3
                    /\ T[s] = "("
                    /\ T[j - 1] = ")"
                    /\ Derives(12, s + 1, j - 1)
        ELSE IF level = 4
        THEN \/ Derives(3, i, j)
             \/ \E k \in (i + 1)..(j - 2) :
                   /\ T[k] = "<=>"
                   /\ Derives(3, i, k)
                   /\ Derives(3, k + 1, j)
        ELSE IF level = 12
        THEN \/ Derives(11, i, j)
             \/ \E k \in (i + 1)..(j - 2) :
                   /\ T[k] = "?"
                   /\ Derives(11, i, k)
                   /\ \/ T[k + 1] = ":" /\ Derives(12, k + 2, j)
                      \/ \E m \in (k + 2)..(j - 2) :
                            /\ T[m] = ":"
                            /\ Derives(12, k + 1, m)
                            /\ Derives(12, m + 1, j)
        ELSE \/ Derives(level - 1, i, j)
             \/ \E k \in (i + 1)..(j - 2) :
                   /\ T[k] \in LevelOperators(level)
                   /\ Derives(level, i, k)
                   /\ Derives(level - 1, k + 1, j)

\* the whole of Definition is an expression of the grammar
Derivable == Derives(12, 1, End(Definition))

\* C19: on every non-empty token list up to the bounded length over integer
\* literals, allowed and other identifiers, parentheses, the operators of
\* the grammar and other tokens, match() returns true exactly when the
\* whole list is derivable as an expression of the precedence grammar.
C19_MatchIffDerivable ==
    (/\ MatchReturned
     /\ Definition # <<>>
     /\ Len(Definition) <= MaxNestingTokens
     /\ ~HasFloatLiteral)
        => (matched = "true" <=> Derivable)

\* `x_ ? : -x_` was accepted: the elided conditional with a unary operand
C19_Witness ==
    /\ Definition = <<"x_", "?", ":", "-", "x_">>
    /\ matched = "true"
    /\ Derivable

\* ------------------------------------------------------------------------
\* modernize-macro-to-function: MacroToFunctionCallbacks
\* ------------------------------------------------------------------------
\* most #define and #undef directives of a main file
MaxMacroDirectives == 2

\* The MacroInfo of the #define directives of the check's test and of its
\* documentation, and one of each kind MacroDefined returns on.
MacroDefinitions ==
    { [Name |-> "FOO", isFunctionLike |-> FALSE, isBuiltinMacro |-> FALSE,
       params |-> <<>>, tokens |-> <<"__foo">>],
      [Name |-> "F", isFunctionLike |-> TRUE, isBuiltinMacro |-> FALSE,
       params |-> <<"x_">>, tokens |-> <<"int", "y", "=", "x_">>],
      [Name |-> "G", isFunctionLike |-> TRUE, isBuiltinMacro |-> FALSE,
       params |-> <<"x_">>,
       tokens |-> <<"(", "(", "x_", ")", "/", "100", ")">>],
      [Name |-> "G2", isFunctionLike |-> TRUE, isBuiltinMacro |-> FALSE,
       params |-> <<"x_", "y_">>,
       tokens |-> <<"(", "x_", "+", "1", ")", "/",
                    "(", "y_", "-", "1", ")">>],
      [Name |-> "H", isFunctionLike |-> TRUE, isBuiltinMacro |-> FALSE,
       params |-> <<"x_", "y_">>,
       tokens |-> <<"std", "::", "complex", "<", "double", ">",
                    "(", "x_", ",", "y_", ")">>],
      [Name |-> "SC", isFunctionLike |-> TRUE, isBuiltinMacro |-> FALSE,
       params |-> <<"t_", "val_">>,
       tokens |-> <<"static_cast", "<", "t_", ">", "(", "val_", ")">>],
      [Name |-> "SQUARE", isFunctionLike |-> TRUE, isBuiltinMacro |-> FALSE,
       params |-> <<"x">>,
       tokens |-> <<"(", "(", "x", ")", "*", "(", "x", ")", ")">>],
      [Name |-> "PYTHAG", isFunctionLike |-> TRUE, isBuiltinMacro |-> FALSE,
       params |-> <<"x", "y">>,
       tokens |-> <<"(", "sqrt", "(", "(", "x", ")", "*", "(", "x", ")", "+",
                    "(", "y", ")", "*", "(", "y", ")", ")", ")">>],
      [Name |-> "V", isFunctionLike |-> TRUE, isBuiltinMacro |-> FALSE,
       params |-> <<"__VA_ARGS__">>, tokens |-> <<"1">>],
      [Name |-> "E", isFunctionLike |-> TRUE, isBuiltinMacro |-> FALSE,
       params |-> <<"x_">>, tokens |-> <<>>],
      [Name |-> "Z", isFunctionLike |-> TRUE, isBuiltinMacro |-> FALSE,
       params |-> <<>>, tokens |-> <<"1">>],
      [Name |-> "__LINE__", isFunctionLike |-> FALSE, isBuiltinMacro |-> TRUE,
       params |-> <<>>, tokens |-> <<>>] }

MacroNames == {MD.Name : MD \in MacroDefinitions}

\* a SourceLocation; line 0 is the invalid location
SourceLocation(line, col) == [line |-> line, col |-> col]

\* SourceLocation's operator<=
LocationLE(a, b) == a.line < b.line \/ (a.line = b.line /\ a.col <= b.col)

\* the location of the next directive's macro name: `#define NAME`
NextLocation == SourceLocation(Len(directives) + 1, 9)

\* the preprocessor delivers one more directive of the main file
Deliver(kind, name, inFile) ==
    /\ ~finished
    /\ ~parsed
    /\ Len(directives) < MaxMacroDirectives
    /\ directives' =
          Append(directives, [kind |-> kind, Name |-> name, inFile |-> inFile])

\* MacroDefined without the test of param_empty()
NotACandidate_AnyParams(Info, inFile) ==
    \/ ~inFile
    \/ Info.isBuiltinMacro
    \/ Info.tokens = <<>>
    \/ ~Info.isFunctionLike
    \/ \E i \in DOMAIN Info.params : Info.params[i] = "__VA_ARGS__"

\* MacroDefined returns before it constructs a matcher
NotACandidate(Info, inFile) ==
    \/ ~inFile
    \/ Info.isBuiltinMacro
    \/ Info.tokens = <<>>
    \/ ~Info.isFunctionLike
    \/ Info.params = <<>>
    \/ \E i \in DOMAIN Info.params : Info.params[i] = "__VA_ARGS__"

MacroToFunctionCallbacks_MacroDefined(MacroNameTok, MD, inFile) ==
    /\ Deliver("define", MacroNameTok, inFile)
    /\ IF NotACandidate(MD, inFile)
       THEN UNCHANGED <<FunctionMacros, matcherVars>>
       ELSE \E r \in {match(MD.tokens, MD.params)} :
                /\ Definition' = MD.tokens
                /\ AllowedIdentifiers' = MD.params
                /\ Current' = r.cur
                /\ overrun' = r.ub
                /\ IF r.ub
                   THEN matched' \in {"true", "false", "crash"}
                   ELSE matched' = IF r.ok THEN "true" ELSE "false"
                /\ FunctionMacros' =
                      IF matched' = "true"
                      THEN Append(FunctionMacros,
                                  [Name |-> MacroNameTok,
                                   Directive |-> [Location |-> NextLocation,
                                                  Info |-> MD]])
                      ELSE FunctionMacros
    /\ UNCHANGED <<checkDiags, finished, parsed>>
    /\ UNCHANGED vars
    /\ UNCHANGED treeVars

\* the handler's body is empty
MacroToFunctionCallbacks_MacroUndefined(MacroNameTok) ==
    /\ Deliver("undef", MacroNameTok, TRUE)
    /\ UNCHANGED <<FunctionMacros, checkDiags, finished, parsed>>
    /\ UNCHANGED matcherVars
    /\ UNCHANGED vars
    /\ UNCHANGED treeVars

RECURSIVE TemplateParameters(_, _)
\* the first loop of EndOfMainFile, from parameter I on
TemplateParameters(NumParams, I) ==
    IF I >= NumParams THEN ""
    ELSE (IF I > 0 THEN ", " ELSE "") \o "typename T"
         \o (IF I > 0 THEN ToString(I + 1) ELSE "")
         \o TemplateParameters(NumParams, I + 1)

RECURSIVE FunctionParameters(_, _)
\* the second loop of EndOfMainFile, from parameter I on
FunctionParameters(params, I) ==
    IF I >= Len(params) THEN ""
    ELSE (IF I > 0 THEN ", " ELSE "") \o "T"
         \o (IF I > 0 THEN ToString(I + 1) ELSE "")
         \o " " \o params[I + 1]
         \o FunctionParameters(params, I + 1)

Replacement(Macro) ==
    "template <"
    \o TemplateParameters(Len(Macro.Directive.Info.params), 0)
    \o "> auto " \o Macro.Name \o "("
    \o FunctionParameters(Macro.Directive.Info.params, 0)
    \o ") { return "

\* EndOfMainFile without the diagnostic at the directive's location
MacroDiagnostics_FixOnly(Macro) ==
    << [Location |-> SourceLocation(Macro.Directive.Location.line, 1),
        Message |-> "replace macro with template function",
        Replacement |-> Replacement(Macro),
        Insertion |-> "; }"] >>

\* the two diagnostics of one recorded macro
MacroDiagnostics(Macro) ==
    << [Location |-> Macro.Directive.Location,
        Message |-> "macro '%0' defines an expression of its arguments; prefer an inline function instead",
        Name |-> Macro.Name],
       [Location |-> SourceLocation(Macro.Directive.Location.line, 1),
        Message |-> "replace macro with template function",
        Replacement |-> Replacement(Macro),
        Insertion |-> "; }"] >>

RECURSIVE Diagnostics(_, _)
\* the loop of EndOfMainFile over Macros, from index k on
Diagnostics(Recorded, k) ==
    IF k > Len(Recorded) THEN <<>>
    ELSE MacroDiagnostics(Recorded[k]) \o Diagnostics(Recorded, k + 1)

MacroToFunctionCallbacks_EndOfMainFile ==
    /\ ~finished
    /\ checkDiags' = Diagnostics(FunctionMacros, 1)
    /\ finished' = TRUE
    /\ UNCHANGED <<FunctionMacros, directives, parsed>>
    /\ UNCHANGED matcherVars
    /\ UNCHANGED vars
    /\ UNCHANGED treeVars

\* the source ranges of top-level declarations MacroToFunctionCheck::check
\* is called with
Ranges ==
    {[Begin |-> SourceLocation(b, 1), End |-> SourceLocation(e, 1)] :
        b \in 0..(MaxMacroDirectives + 1), e \in 0..(MaxMacroDirectives + 1)}

isValid(Range) == Range.Begin.line # 0 /\ Range.End.line # 0

empty(Range) == Range.Begin = Range.End

invalidateRange(Recorded, Range) ==
    SelectSeq(Recorded,
              LAMBDA Macro :
                  ~(/\ LocationLE(Range.Begin, Macro.Directive.Location)
                    /\ LocationLE(Macro.Directive.Location, Range.End)))

\* MacroToFunctionCheck::check: the AST matchers run on the top-level
\* declarations once the main file has been parsed to its end, before the
\* preprocessor's EndOfMainFile
check(Range) ==
    /\ ~finished
    /\ parsed' = TRUE
    /\ FunctionMacros' =
          IF isValid(Range) /\ ~empty(Range)
          THEN invalidateRange(FunctionMacros, Range)
          ELSE FunctionMacros
    /\ UNCHANGED <<directives, checkDiags, finished>>
    /\ UNCHANGED matcherVars
    /\ UNCHANGED vars
    /\ UNCHANGED treeVars

InitCheck ==
    /\ NoTracker
    /\ NoMatcher
    /\ NoCheck
    /\ NoTree

NextCheck ==
    \/ \E MD \in MacroDefinitions, inFile \in BOOLEAN :
          MacroToFunctionCallbacks_MacroDefined(MD.Name, MD, inFile)
    \/ \E name \in MacroNames : MacroToFunctionCallbacks_MacroUndefined(name)
    \/ MacroToFunctionCallbacks_EndOfMainFile
    \/ \E Range \in Ranges : check(Range)

SpecCheck == InitCheck /\ [][NextCheck]_<<vars, macroToFunctionVars, treeVars>>

\* ------------------------------------------------------------------------
\* Claims about the macro-to-function check
\* ------------------------------------------------------------------------
\* the lines of the main file that #define the name
DefinedAt(name) ==
    {i \in DOMAIN directives :
        /\ directives[i].kind = "define"
        /\ directives[i].Name = name
        /\ directives[i].inFile}

\* the name is #defined once in the main file and never #undef'd
DefinedOnce(name) ==
    /\ Cardinality(DefinedAt(name)) = 1
    /\ \A i \in DOMAIN directives : 
          directives[i].Name = name => i \in DefinedAt(name)

\* the two warnings for the macro defined at the line were emitted
Reported(name, line) ==
    /\ \E k \in DOMAIN checkDiags :
          /\ checkDiags[k].Location = SourceLocation(line, 9)
          /\ checkDiags[k].Name = name
    /\ \E k \in DOMAIN checkDiags :
          /\ checkDiags[k].Location = SourceLocation(line, 1)
          /\ checkDiags[k].Message = "replace macro with template function"

\* C20: a function-like macro whose body applies a function such as sqrt
\* to expressions of its parameters, PYTHAG(x, y) (sqrt((x)*(x) + (y)*(y))),
\* is reported and replaced by a template function.
C20_PythagReported ==
    (finished /\ DefinedOnce("PYTHAG"))
        => \A line \in DefinedAt("PYTHAG") : Reported("PYTHAG", line)

\* the name is #undef'd on a line after the line
UndefinedAfter(name, line) ==
    \E j \in DOMAIN directives :
        /\ j > line
        /\ directives[j].kind = "undef"
        /\ directives[j].Name = name

\* C21: a matching function-like macro that is #undef'd after its
\* definition is not reported for replacement at the end of the main file.
C21_UndefinedNotReported ==
    finished =>
        \A name \in MacroNames : \A line \in DefinedAt(name) :
            UndefinedAfter(name, line) => ~Reported(name, line)

\* C22: a function-like macro name that is #define'd more than once in the
\* file is not reported for replacement at the end of the main file.
C22_RedefinedNotReported ==
    finished =>
        \A name \in MacroNames :
            Cardinality(DefinedAt(name)) > 1
                => \A line \in DefinedAt(name) : ~Reported(name, line)

\* the MacroInfo of the definition of the name
InfoOf(name) == CHOOSE MD \in MacroDefinitions : MD.Name = name

\* the conditions of a replacement candidate
Eligible(Info) ==
    /\ Info.isFunctionLike
    /\ ~Info.isBuiltinMacro
    /\ Info.tokens # <<>>
    /\ Info.params # <<>>
    /\ \A i \in DOMAIN Info.params : Info.params[i] # "__VA_ARGS__"
    /\ match(Info.tokens, Info.params).ok

\* the lines a diagnostic was emitted on
DiagnosedLines == {checkDiags[k].Location.line : k \in DOMAIN checkDiags}

\* C23: a macro definition becomes a replacement candidate only if it is
\* function-like, not builtin, has a non-empty body, at least one parameter,
\* no __VA_ARGS__ parameter and a body accepted by match(); the object-like
\* FOO and the statement-like F yield no diagnostic.
C23_OnlyEligibleCandidates ==
    /\ \A k \in DOMAIN FunctionMacros :
          /\ Eligible(FunctionMacros[k].Directive.Info)
          /\ FunctionMacros[k].Name = FunctionMacros[k].Directive.Info.Name
    /\ \A line \in DiagnosedLines :
          /\ line \in DOMAIN directives
          /\ directives[line].kind = "define"
          /\ Eligible(InfoOf(directives[line].Name))
          /\ directives[line].Name \notin {"FOO", "F"}

\* `#define F(x_) int y = x_` then `#define G(x_) ((x_)/100)`: only G is
\* reported
C23_Witness ==
    /\ finished
    /\ Len(directives) = 2
    /\ directives[1] = [kind |-> "define", Name |-> "F", inFile |-> TRUE]
    /\ Reported("G", 2)
    /\ DiagnosedLines = {2}

\* the warning at the definition location of the k-th remaining candidate
NamingWarning(k) ==
    /\ checkDiags[2 * k - 1].Location = FunctionMacros[k].Directive.Location
    /\ checkDiags[2 * k - 1].Location.col = 9
    /\ checkDiags[2 * k - 1].Name = FunctionMacros[k].Name
    /\ checkDiags[2 * k - 1].Message =
          "macro '%0' defines an expression of its arguments; prefer an inline function instead"
    /\ directives[checkDiags[2 * k - 1].Location.line] =
          [kind |-> "define", Name |-> FunctionMacros[k].Name, inFile |-> TRUE]

\* the warning at the start of the definition line of the k-th candidate
ReplaceWarning(k) ==
    /\ checkDiags[2 * k].Location =
          SourceLocation(FunctionMacros[k].Directive.Location.line, 1)
    /\ checkDiags[2 * k].Message = "replace macro with template function"

\* C24: at the end of the main file each remaining candidate macro yields
\* exactly two warnings, one at the macro's definition location naming the
\* macro and one `replace macro with template function` at the start of the
\* definition line, and the candidates are reported in definition order.
C24_TwoWarningsInDefinitionOrder ==
    finished =>
        /\ Len(checkDiags) = 2 * Len(FunctionMacros)
        /\ \A k \in DOMAIN FunctionMacros : NamingWarning(k) /\ ReplaceWarning(k)
        /\ \A j, k \in DOMAIN checkDiags :
              j < k => checkDiags[j].Location.line <= checkDiags[k].Location.line

\* G2 on line 1 and G on line 2 are both reported, G2 first
C24_Witness ==
    /\ finished
    /\ Len(FunctionMacros) = 2
    /\ FunctionMacros[1].Name = "G2"
    /\ FunctionMacros[2].Name = "G"
    /\ Len(checkDiags) = 4
    /\ checkDiags[1].Name = "G2"
    /\ checkDiags[3].Name = "G"

\* ------------------------------------------------------------------------
\* Claims about the replay's scope bookkeeping
\* ------------------------------------------------------------------------
\* the locals of the replay of a record after its first k usages
LocalsAfter(Macro, k, junk) == ReplayPrefix(Macro.States, k, Macro.Name, junk)

\* the usage after position k is the definedness test of the directive that
\* recorded the usage at k
OwnTestFollows(States, k) ==
    /\ k < Len(States)
    /\ States[k + 1].State = "TestedDefined"
    /\ States[k + 1].Range = States[k].Range

\* C25: at every sibling transition (#else, #elif, #elifdef, #elifndef) the
\* replay resets both TestedValue and TestedDefined to false before the new
\* branch's own tests are applied: after the usage of the transition
\* TestedValue is false, and TestedDefined is false unless the directive's
\* own definedness test of this macro comes next.
C25_SiblingTransitionResets ==
    \A i \in 1..Len(Macros), junk \in BOOLEAN :
        \A k \in PositionsOf(Macros[i].States, {"Else", "ElIf", "ElIfDef"}) :
            /\ ~LocalsAfter(Macros[i], k, junk).TestedValue
            /\ LocalsAfter(Macros[i], k, junk).TestedDefined
                  => OwnTestFollows(Macros[i].States, k)

\* C26: entering a block (#if, #ifdef or #ifndef) pushes a copy of the
\* current (TestedValue, TestedDefined) pair and leaves both booleans
\* unchanged; an #ifdef or #ifndef that names another macro does not set
\* TestedDefined in the replay of this macro.
C26_BlockEntryKeepsFlags ==
    \A i \in 1..Len(Macros), junk \in BOOLEAN :
        \A k \in PositionsOf(Macros[i].States, {"If", "IfDef"}) :
            /\ Back(LocalsAfter(Macros[i], k, junk).TestedValueStack)
                  = LocalsAfter(Macros[i], k - 1, junk).TestedValue
            /\ Back(LocalsAfter(Macros[i], k, junk).TestedDefinedStack)
                  = LocalsAfter(Macros[i], k - 1, junk).TestedDefined
            /\ LocalsAfter(Macros[i], k, junk).TestedValue
                  = LocalsAfter(Macros[i], k - 1, junk).TestedValue
            /\ ~OwnTestFollows(Macros[i].States, k)
                  => LocalsAfter(Macros[i], k, junk).TestedDefined
                        = LocalsAfter(Macros[i], k - 1, junk).TestedDefined

\* C27: after any event sequence whose conditional directives are well
\* nested, every record's States is a well-nested parenthesization of
\* If / IfDef and EndIf usages that leaves open exactly the blocks that are
\* open, also for a record created inside open blocks or by a defined
\* operator delivered before the If callback of its directive: the replay
\* never pops an empty stack, its two stacks have equal size, and at the end
\* of the main file both are empty.
C27_WellNestedHistories ==
    \A i \in 1..Len(Macros) :
        /\ \A k \in 1..Len(Macros[i].States) :
              OpenAfter(Macros[i].States, k) >= 0
        /\ OpenAfter(Macros[i].States, Len(Macros[i].States)) = Depth
        /\ \A junk \in BOOLEAN :
              /\ ~LocalsAfter(Macros[i], Len(Macros[i].States), junk).EmptyPop
              /\ Len(LocalsAfter(Macros[i], Len(Macros[i].States),
                                 junk).TestedValueStack) = Depth
              /\ Len(LocalsAfter(Macros[i], Len(Macros[i].States),
                                 junk).TestedDefinedStack) = Depth

\* `#if 0`, `#if defined(N)`, `#endif`, `#endif`: the record of N was created
\* by the defined operator inside an open block, before the If callback
C27_Witness ==
    /\ done
    /\ Tracked("N")
    /\ Roles(StatesOf("N")) =
          <<"Undefined", "If", "If", "TestedDefined", "EndIf", "EndIf">>
    /\ LocalsAfter(Macros[1], 6, FALSE).TestedValueStack = <<>>

\* position of the Undefined usage the constructor of the record put first
Seed(States) ==
    CHOOSE k \in PositionsOf(States, {"Undefined"}) :
        \A j \in PositionsOf(States, {"Undefined"}) : k <= j

\* C28: every record's States is in source order: the If / ElIf usage of an
\* #if or #elif directive precedes every TestedDefined and TestedValue usage
\* produced by that directive's own condition, although the Defined callbacks
\* are delivered before the directive's If / Elif callback; and no usage
\* lies wholly before a usage that precedes it in States, the Undefined
\* usage the record was constructed with apart.
C28_BlockEntryPrecedesOwnTests ==
    \A i \in 1..Len(Macros) :
        /\ \A k \in PositionsOf(Macros[i].States, {"If", "ElIf"}) :
              \A j \in PositionsOf(Macros[i].States,
                                   {"TestedDefined", "TestedValue"}) :
                  fullyContains(Macros[i].States[k].Range,
                                Macros[i].States[j].Range) => k < j
        /\ \A j, k \in 1..Len(Macros[i].States) :
              (j < k /\ j # Seed(Macros[i].States))
                  => getBegin(Macros[i].States[j].Range)
                        <= Macros[i].States[k].Range[2]

\* `#define N 1`, `#if defined(N)`: the TestedDefined usage of the operator
\* was recorded first and the If usage inserted in front of it
C28_Witness ==
    /\ pending = NoPending
    /\ Tracked("N")
    /\ Roles(StatesOf("N")) =
          <<"Undefined", "DefinedValue", "If", "TestedDefined">>
    /\ ByOperator(StatesOf("N")[4])
    /\ fullyContains(StatesOf("N")[3].Range, StatesOf("N")[4].Range)

\* the TestedDefined usage at position k set the contradiction flag
FlagSetAt(Macro, k, junk) ==
    /\ LocalsAfter(Macro, k, junk).HasValueTestedDefined
    /\ \/ ~LocalsAfter(Macro, k - 1, junk).HasValueTestedDefined
       \/ LocalsAfter(Macro, k, junk).HasValueTestedDefinedLoc
             # LocalsAfter(Macro, k - 1, junk).HasValueTestedDefinedLoc

\* C29: the contradiction flag of a macro is set by a definedness test only
\* if the most recent #define / #undef usage of the macro before that test
\* is a #define with a non-empty body; a test replayed after an #undef or
\* after a re-#define with an empty body never sets it.
C29_FlagOnlyUnderLatestValueDefinition ==
    \A i \in 1..Len(Macros), junk \in BOOLEAN :
        \A k \in 1..Len(Macros[i].States) :
            FlagSetAt(Macros[i], k, junk)
                => /\ Macros[i].States[k].State = "TestedDefined"
                   /\ ValueDefinition(Macros[i].States, k) # 0

\* `#define N 1`, `#undef N`, `#if defined(N)`, `#endif`: the test after the
\* #undef has been replayed and the flag is not set
C29_Witness ==
    /\ done
    /\ Tracked("N")
    /\ Roles(StatesOf("N")) =
          <<"Undefined", "DefinedValue", "Undefined", "If", "TestedDefined",
            "EndIf">>
    /\ ~LocalsAfter(Macros[1], 6, FALSE).HasValueTestedDefined
    /\ diags = <<>>

SiblingRoles == {"Else", "ElIf", "ElIfDef"}

\* the number of open blocks after each prefix of States
Levels(States) == [k \in 0..Len(States) |-> OpenAfter(States, k)]

\* the locals of the replay after each prefix of the record's States
Trace(Macro, junk) ==
    [k \in 0..Len(Macro.States) |-> LocalsAfter(Macro, k, junk)]

\* position k lies in the branch of the usage at t: since t the block of t
\* has neither been closed nor moved on to a sibling branch
InBranchOf(States, Lv, t, k) ==
    \A p \in (t + 1)..k :
        /\ Lv[p] >= Lv[t]
        /\ ~(States[p].State \in SiblingRoles /\ Lv[p] = Lv[t])

\* the mark a test at t sets is still set wherever the branch of t is being
\* replayed, in nested blocks up to their first sibling transition and again
\* after they close
MarksSurvive(States, Lv, R) ==
    \A t \in PositionsOf(States, {"TestedDefined", "TestedValue"}) :
        \A k \in t..Len(States) :
            (/\ InBranchOf(States, Lv, t, k)
             /\ \/ Lv[k] = Lv[t]
                \/ \A p \in (t + 1)..k : States[p].State \notin SiblingRoles)
                => IF States[t].State = "TestedDefined"
                   THEN R[k].TestedDefined
                   ELSE R[k].TestedValue

\* C30: a TestedValue or TestedDefined mark set by a test in a branch stays
\* set while blocks nested inside that branch are replayed, until a sibling
\* transition or the #endif of the branch's own block; the #endif of a
\* nested block restores it.
C30_MarksSurviveNestedBlocks ==
    \A i \in 1..Len(Macros), junk \in BOOLEAN :
        MarksSurvive(Macros[i].States, Levels(Macros[i].States),
                     Trace(Macros[i], junk))

\* `#if defined(N)`, `#if 0`, `#endif`, `#endif`: the mark of the outer test
\* is set inside the nested block and after it
C30_Witness ==
    /\ done
    /\ Tracked("N")
    /\ Roles(StatesOf("N")) =
          <<"If", "Undefined", "TestedDefined", "If", "EndIf", "EndIf">>
    /\ LocalsAfter(Macros[1], 4, FALSE).TestedDefined
    /\ LocalsAfter(Macros[1], 5, FALSE).TestedDefined
    /\ ~LocalsAfter(Macros[1], 6, FALSE).TestedDefined

\* ------------------------------------------------------------------------
\* Claims about the records and ActiveCondition
\* ------------------------------------------------------------------------
\* the names of the records of Ms
RecordNames(Ms) == {Ms[i].Name : i \in 1..Len(Ms)}

\* C31: no two records have the same macro name, and every callback keeps
\* each existing record in its place with its name and at least its usages:
\* a second definition, test or undef of a tracked name extends the existing
\* record, and a new record is only created for a name that had none.
C31_OneRecordPerName ==
    [][/\ \A i \in 1..Len(Macros'), j \in 1..Len(Macros') :
             Macros'[i].Name = Macros'[j].Name => i = j
       /\ Len(Macros') >= Len(Macros)
       /\ \A i \in 1..Len(Macros) :
             /\ Macros'[i].Name = Macros[i].Name
             /\ Len(Macros'[i].States) >= Len(Macros[i].States)
       /\ \A i \in (Len(Macros) + 1)..Len(Macros') :
             Macros'[i].Name \notin RecordNames(Macros)
      ]_vars

\* `#define N 1`, `#ifdef N`, `#undef N`, `#endif`: one record holds the
\* definition, the test and the undef
C31_Witness ==
    /\ Len(Macros) = 1
    /\ Roles(Macros[1].States) =
           <<"Undefined", "DefinedValue", "IfDef", "TestedDefined",
             "Undefined", "EndIf">>

\* the usages of the conditional directives
BlockRoles == {"If", "IfDef", "ElIf", "Else", "ElIfDef"}

\* open without the usages of its innermost open block
RECURSIVE DropOpenBlock(_)
DropOpenBlock(open) ==
    IF open = <<>> THEN <<>>
    ELSE IF StartsCond(Back(open)) THEN Front(open)
    ELSE DropOpenBlock(Front(open))

\* open after one more usage of a record
AfterUsage(open, Usage) ==
    IF Usage.State \in BlockRoles THEN Append(open, Usage)
    ELSE IF Usage.State = "EndIf" THEN DropOpenBlock(open)
    ELSE open

\* the block-entry and sibling-transition usages, among the first k of
\* States, of the blocks no EndIf has closed
RECURSIVE OpenUsages(_, _)
OpenUsages(States, k) ==
    IF k = 0 THEN <<>>
    ELSE AfterUsage(OpenUsages(States, k - 1), States[k])

\* C32: ActiveCondition holds exactly the block-entry and sibling-transition
\* usages of the conditional blocks that are open, in order: it equals what
\* every record's history leaves open when each EndIf closes the usages back
\* to and including the most recent If / IfDef, it starts with a block
\* entry, and it is empty whenever no conditional block is open.
C32_ActiveConditionIsOpenBlocks ==
    /\ \A k \in 1..Len(ActiveCondition) :
          ActiveCondition[k].State \in BlockRoles
    /\ ActiveCondition # <<>> => StartsCond(ActiveCondition[1])
    /\ \A i \in 1..Len(Macros) :
          /\ OpenUsages(Macros[i].States, Len(Macros[i].States))
                = ActiveCondition
          /\ OpenAfter(Macros[i].States, Len(Macros[i].States)) = 0
                => ActiveCondition = <<>>

\* `#define N`, `#ifdef N`, `#else`, `#endif`: the #endif removed the Else
\* and the IfDef entry
C32_Witness ==
    /\ ActiveCondition = <<>>
    /\ Tracked("N")
    /\ Roles(StatesOf("N")) =
           <<"Undefined", "DefinedEmpty", "IfDef", "TestedDefined", "Else",
             "EndIf">>

\* ------------------------------------------------------------------------
\* Claims about #undef of an unseen name and about #elifdef / #elifndef
\* ------------------------------------------------------------------------
\* the usage at position k of States is the one MacroUndefined added when it
\* created the record: a TestedDefined at the location of the seed
\* Undefined, not preceded by the IfDef / ElIfDef of an #ifdef or #elifdef
CreatedByUndef(States, k) ==
    /\ k > 1
    /\ k <= Len(States)
    /\ States[k].State = "TestedDefined"
    /\ States[k].Range = States[1].Range
    /\ States[k].Range[1] = States[k].Range[2]
    /\ \A j \in 2..(k - 1) : States[j].Range[2] < States[k].Range[1]

\* States without the usage at position k
WithoutUsage(States, k) ==
    SubSeq(States, 1, k - 1) \o SubSeq(States, k + 1, Len(States))

\* C33: an #undef of a name that has no record yet does not change the
\* diagnostics emitted for that name: the replay of the record the #undef
\* created yields the diagnostics of the same history without the usage the
\* #undef recorded.
C33_UndefOfUnseenNameNoEffect ==
    done =>
      \A i \in 1..Len(Macros), junk \in BOOLEAN :
        \A k \in 1..Len(Macros[i].States) :
          CreatedByUndef(Macros[i].States, k) =>
            RecordDiags(Macros[i], junk)
              = RecordDiags([Macros[i] EXCEPT
                                !.States = WithoutUsage(@, k)], junk)

\* number of value tests in the record of n in Ms, 0 without a record
ValueTestsOf(Ms, n) ==
    IF FindMacro(Ms, n) = 0 THEN 0
    ELSE Cardinality(PositionsOf(Ms[FindMacro(Ms, n)].States, {"TestedValue"}))

\* C34: an #elifdef M or #elifndef M records a definedness test of M and
\* never a value test, whether the preprocessor evaluates the directive or
\* skips it: after either overload of Elifdef / Elifndef the last usage of
\* the record of M is a TestedDefined and the record holds no value test it
\* did not hold before.
C34_ElifdefRecordsDefinednessTest ==
    [][\A n \in names :
          (Elifdef(n) \/ Elifndef(n) \/ ElifdefSkipped(n) \/ ElifndefSkipped(n))
            => /\ FindMacro(Macros', n) # 0
               /\ Back(Macros'[FindMacro(Macros', n)].States).State
                     = "TestedDefined"
               /\ ValueTestsOf(Macros', n) = ValueTestsOf(Macros, n)]_vars

\* ------------------------------------------------------------------------
\* Claims about unary operators, conditionals and the cursor of the matcher
\* ------------------------------------------------------------------------
UnaryOperators == {"-", "+", "~", "!"}

\* the token at k can end an operand: +, - after it are binary operators
EndsOperand(Tok) == isLiteral(Tok) \/ isAnyIdentifier(Tok) \/ Tok = ")"

\* the token at k of the list T is a unary operator in prefix position
PrefixOperatorAt(T, k) ==
    /\ T[k] \in UnaryOperators
    /\ k = 1 \/ ~EndsOperand(T[k - 1])

AcceptedUnary ==
    { <<"-", "(", "-", "x_", ")">>, <<"x_", "-", "-", "y_">>,
      <<"!", "(", "!", "x_", ")">>, <<"x_", "+", "~", "y_">> }

RejectedUnary ==
    { <<"-", "-", "x_">>, <<"!", "!", "x_">>, <<"-">>, <<"x_", "*", "~">>,
      <<"x_", "-", "!">> }

\* C35: at most one prefix unary operator is accepted directly before an
\* operand: in an accepted list every prefix `-`, `+`, `~` or `!` is followed
\* by a token that is no unary operator; `- - x` and `! ! x` are rejected,
\* `-(-x)` and `a - -b` are accepted, and a list that ends with a unary
\* operator is rejected.
C35_SingleUnaryPrefix ==
    MatchReturned =>
      /\ matched = "true" =>
            \A k \in 1..Len(Definition) :
               PrefixOperatorAt(Definition, k) =>
                  /\ k < Len(Definition)
                  /\ Definition[k + 1] \notin UnaryOperators
      /\ (Definition # <<>> /\ Back(Definition) \in UnaryOperators)
            => matched = "false"
      /\ Definition \in AcceptedUnary => matched = "true"
      /\ Definition \in RejectedUnary => matched = "false"

\* `x_ - - y_` was accepted: a binary minus, then one prefix minus
C35_Witness ==
    /\ matched = "true"
    /\ Definition = <<"x_", "-", "-", "y_">>
    /\ AllowedIdentifiers = <<"x_", "y_">>
    /\ Current = 5

\* number of tokens of T that are Tok
CountOf(T, Tok) == Cardinality({k \in 1..Len(T) : T[k] = Tok})

AcceptedConditional ==
    { <<"x_", "?", "y_", ":", "1">>, <<"x_", "?", ":", "y_">>,
      <<"x_", "?", "y_", ":", "1", "?", "x_", ":", "y_">>,
      <<"x_", "?", "y_", "?", "1", ":", "x_", ":", "y_">> }

RejectedConditional ==
    { <<"x_", "?">>, <<"x_", "||", "y_", "?">>, <<"x_", "?", "y_">>,
      <<"x_", "?", "y_", "||", "1">>, <<"x_", "?", "y_", "1">>,
      <<"x_", "?", "y_", ")">>, <<"x_", "?", "y_", ":">>, <<"x_", "?", ":">>,
      <<"x_", "?", "y_", ":", "1", "?">>,
      <<"x_", "?", "y_", ":", "1", "?", "x_">> }

\* C36: the conditional level accepts `a ? b : c`, the GNU elided form
\* `a ?: c` and conditionals nested to the right; a list whose last token is
\* `?` is rejected, and in an accepted list every `?` has its own `:` after
\* it with a further token behind that `:`.
C36_ConditionalForms ==
    MatchReturned =>
      /\ Definition \in AcceptedConditional => matched = "true"
      /\ Definition \in RejectedConditional => matched = "false"
      /\ (Definition # <<>> /\ Back(Definition) = "?") => matched = "false"
      /\ matched = "true" =>
            /\ CountOf(Definition, "?") = CountOf(Definition, ":")
            /\ \A k \in 1..Len(Definition) :
                  Definition[k] = "?" =>
                     \E j \in (k + 1)..(Len(Definition) - 1) :
                        Definition[j] = ":"

\* `x_ ? y_ : 1 ? x_ : y_` was accepted: the last operand is a conditional
C36_Witness ==
    /\ matched = "true"
    /\ Definition = <<"x_", "?", "y_", ":", "1", "?", "x_", ":", "y_">>
    /\ Current = 10

\* a member function called with Current = c returned r: it read no token
\* at End and left the cursor between c and End
CursorMoves(T, c, r) == ~r.ub /\ r.cur >= c /\ r.cur <= End(T)

\* every member function, called with Current = c
GrammarCursorSafe(ExprAt, T, A, c) ==
    /\ CursorMoves(T, c, advance(T, c))
    /\ CursorMoves(T, c, consume("(", T, c))
    /\ CursorMoves(T, c, consume(")", T, c))
    /\ CursorMoves(T, c, unaryOperator(T, c))
    /\ CursorMoves(T, c, unaryExpr(ExprAt, T, A, c))
    /\ CursorMoves(T, c, multiplicativeExpr(ExprAt, T, A, c))
    /\ CursorMoves(T, c, additiveExpr(ExprAt, T, A, c))
    /\ CursorMoves(T, c, shiftExpr(ExprAt, T, A, c))
    /\ CursorMoves(T, c, compareExpr(ExprAt, T, A, c))
    /\ CursorMoves(T, c, relationalExpr(ExprAt, T, A, c))
    /\ CursorMoves(T, c, equalityExpr(ExprAt, T, A, c))
    /\ CursorMoves(T, c, andExpr(ExprAt, T, A, c))
    /\ CursorMoves(T, c, exclusiveOrExpr(ExprAt, T, A, c))
    /\ CursorMoves(T, c, inclusiveOrExpr(ExprAt, T, A, c))
    /\ CursorMoves(T, c, logicalAndExpr(ExprAt, T, A, c))
    /\ CursorMoves(T, c, logicalOrExpr(ExprAt, T, A, c))
    /\ CursorMoves(T, c, conditionalExpr(ExprAt, T, A, c))
    /\ CursorMoves(T, c, expr(ExprAt, c))

\* every member function, called with Current at any token of T
AllCursorsSafe(ExprAt, T, A) ==
    \A c \in 1..Len(T) : GrammarCursorSafe(ExprAt, T, A, c)

\* C37: for every non-empty token list match() reads no token with
\* Current = End and leaves Current between begin and End, and every member
\* function, called with the cursor at any token, reads no token at End
\* and returns with the cursor at or after the one it started from and at
\* most at End, so the cursor crosses the tokens once.
C37_CursorOnlyForwardWithinBounds ==
    (matched # "not called" /\ Definition # <<>>) =>
      /\ ~overrun
      /\ MatchReturned
      /\ Current >= 1
      /\ Current <= End(Definition)
      /\ AllCursorsSafe(ExprTable(Definition, AllowedIdentifiers,
                                  End(Definition), <<>>),
                        Definition, AllowedIdentifiers)

\* `x_ * ~` was rejected with the cursor at End: advance() over the last
\* token returned false and no token was read there
C37_Witness ==
    /\ matched = "false"
    /\ Definition = <<"x_", "*", "~">>
    /\ Current = 4
    /\ ~overrun

\* ------------------------------------------------------------------------
\* PPTreeBuilderCallbacks: the directive tree (utils/PPTree)
\* ------------------------------------------------------------------------
\* number of callbacks the preprocessor makes for one main file
MaxTreeDirectives == 4

\* a PPDirective object of the given kind, held by the list List
PPDirective(Kind, List) == [Kind |-> Kind, List |-> List]

\* PPDirectiveList::add on the list List
add(T, List, Kind) == Append(T, PPDirective(Kind, List))

\* DirectiveStack.push_back(List)
pushDirectiveStack(Stack, List) == Append(Stack, List)

\* a popDirectiveStack that leaves the stack as it is
popDirectiveStack_KeepsTop(Stack) == Stack

\* DirectiveStack.pop_back()
popDirectiveStack(Stack) == Front(Stack)

\* the lists DirectiveStack.back() can yield after the pop_back(); back() of
\* an empty vector is undefined and yields any list of the tree
BackAfterPop(Stack, T) ==
    IF popDirectiveStack(Stack) = <<>> THEN 0..Len(T)
    ELSE {Back(popDirectiveStack(Stack))}

\* the preprocessor is not skipping: directives are lexed and reported
Lexing == IF ConditionalStack = <<>> THEN TRUE ELSE Back(ConditionalStack).Taken

\* the main file closes every block it opens: a callback other than Endif
\* leaves room for the Endif of every open block
CanAdd ==
    /\ phase = "lexing"
    /\ Len(received) + Len(ConditionalStack) < MaxTreeDirectives

CanEnter ==
    /\ CanAdd
    /\ Lexing
    /\ Len(received) + Len(ConditionalStack) + 1 < MaxTreeDirectives

\* #elif, #elifdef, #elifndef and #else belong to an open block without #else
CanBranch ==
    /\ CanAdd
    /\ ConditionalStack # <<>>
    /\ ~Back(ConditionalStack).FoundElse

\* the open block after a branch directive whose branch is taken or not
Branch(Taken, FoundElse) ==
    [ConditionalStack EXCEPT ![Len(ConditionalStack)] =
        [Taken |-> Taken, FoundNonSkip |-> @.FoundNonSkip \/ Taken,
         FoundElse |-> FoundElse]]

\* Directives->add(Directive.release()) of a directive without a list
AddDirective(Kind) ==
    /\ CanAdd
    /\ Lexing
    /\ Tree' = add(Tree, Directives, Kind)
    /\ received' = Append(received, Kind)
    /\ UNCHANGED <<DirectiveStack, Directives, ConditionalStack, Visited,
                   phase, assertFailed>>
    /\ UNCHANGED vars
    /\ UNCHANGED macroToFunctionVars

PPTreeBuilderCallbacks_InclusionDirective == AddDirective("Inclusion")

PPTreeBuilderCallbacks_Ident == AddDirective("Ident")

PPTreeBuilderCallbacks_PragmaDirective == AddDirective("Pragma")

PPTreeBuilderCallbacks_PragmaComment == AddDirective("PragmaComment")

PPTreeBuilderCallbacks_PragmaMark == AddDirective("PragmaMark")

PPTreeBuilderCallbacks_PragmaDetectMismatch ==
    AddDirective("PragmaDetectMismatch")

PPTreeBuilderCallbacks_PragmaDebug == AddDirective("PragmaDebug")

PPTreeBuilderCallbacks_PragmaMessage == AddDirective("PragmaMessage")

PPTreeBuilderCallbacks_MacroDefined == AddDirective("MacroDefined")

PPTreeBuilderCallbacks_MacroUndefined == AddDirective("MacroUndefined")

\* If, Ifdef, Ifndef: add the directive, then push its list
EnterBlock(Kind, Taken) ==
    /\ CanEnter
    /\ Tree' = add(Tree, Directives, Kind)
    /\ DirectiveStack' = pushDirectiveStack(DirectiveStack, Len(Tree'))
    /\ Directives' = Back(DirectiveStack')
    /\ ConditionalStack' =
           Append(ConditionalStack,
                  [Taken |-> Taken, FoundNonSkip |-> Taken,
                   FoundElse |-> FALSE])
    /\ received' = Append(received, Kind)
    /\ UNCHANGED <<Visited, phase, assertFailed>>
    /\ UNCHANGED vars
    /\ UNCHANGED macroToFunctionVars

PPTreeBuilderCallbacks_If(Taken) == EnterBlock("If", Taken)

PPTreeBuilderCallbacks_Ifdef(Taken) == EnterBlock("IfDef", Taken)

PPTreeBuilderCallbacks_Ifndef(Taken) == EnterBlock("IfNotDef", Taken)

\* Else, Elif, Elifdef, Elifndef: pop, add the directive, push its list
NextBranch(Kind) ==
    /\ \E List \in BackAfterPop(DirectiveStack, Tree) :
          Tree' = add(Tree, List, Kind)
    /\ assertFailed' = (assertFailed \/ ~(Len(DirectiveStack) > 1))
    /\ DirectiveStack' =
           pushDirectiveStack(popDirectiveStack(DirectiveStack), Len(Tree'))
    /\ Directives' = Back(DirectiveStack')
    /\ received' = Append(received, Kind)
    /\ UNCHANGED <<Visited, phase>>
    /\ UNCHANGED vars
    /\ UNCHANGED macroToFunctionVars

\* the #else branch is taken when no branch before it was
PPTreeBuilderCallbacks_Else ==
    /\ CanBranch
    /\ ConditionalStack' = Branch(~Back(ConditionalStack).FoundNonSkip, TRUE)
    /\ NextBranch("Else")

\* an #elif after a taken branch is reported without being evaluated
PPTreeBuilderCallbacks_Elif(Value) ==
    /\ CanBranch
    /\ ConditionalStack' =
           Branch(~Back(ConditionalStack).FoundNonSkip /\ Value, FALSE)
    /\ NextBranch("ElseIf")

\* the overloads with the name token: the directive was evaluated
PPTreeBuilderCallbacks_Elifdef(Taken) ==
    /\ CanBranch
    /\ ~Back(ConditionalStack).FoundNonSkip
    /\ ConditionalStack' = Branch(Taken, FALSE)
    /\ NextBranch("ElseIfDef")

PPTreeBuilderCallbacks_Elifndef(Taken) ==
    /\ CanBranch
    /\ ~Back(ConditionalStack).FoundNonSkip
    /\ ConditionalStack' = Branch(Taken, FALSE)
    /\ NextBranch("ElseIfNotDef")

\* the overloads of a skipped #elifdef / #elifndef, which carry a range: the
\* builder does not override them, PPCallbacks does nothing
PPCallbacks_Elifdef(Kind) ==
    /\ CanBranch
    /\ Back(ConditionalStack).FoundNonSkip
    /\ ConditionalStack' = Branch(FALSE, FALSE)
    /\ received' = Append(received, Kind)
    /\ UNCHANGED <<Tree, DirectiveStack, Directives, Visited, phase,
                   assertFailed>>
    /\ UNCHANGED vars
    /\ UNCHANGED macroToFunctionVars

\* pop, then add the directive to the list on top
PPTreeBuilderCallbacks_Endif ==
    /\ phase = "lexing"
    /\ Len(received) < MaxTreeDirectives
    /\ ConditionalStack # <<>>
    /\ ConditionalStack' = Front(ConditionalStack)
    /\ assertFailed' = (assertFailed \/ ~(Len(DirectiveStack) > 1))
    /\ DirectiveStack' = popDirectiveStack(DirectiveStack)
    /\ \E List \in BackAfterPop(DirectiveStack, Tree) :
          /\ Directives' = List
          /\ Tree' = add(Tree, List, "EndIf")
    /\ received' = Append(received, "EndIf")
    /\ UNCHANGED <<Visited, phase>>
    /\ UNCHANGED vars
    /\ UNCHANGED macroToFunctionVars

\* Callback->endOfMainFile(&Tree); the main file ends outside every block
PPTreeBuilderCallbacks_EndOfMainFile ==
    /\ phase = "lexing"
    /\ ConditionalStack = <<>>
    /\ phase' = "built"
    /\ UNCHANGED <<Tree, DirectiveStack, Directives, ConditionalStack,
                   received, Visited, assertFailed>>
    /\ UNCHANGED vars
    /\ UNCHANGED macroToFunctionVars

\* ------------------------------------------------------------------------
\* PPTreeVisitor
\* ------------------------------------------------------------------------
\* the kinds whose case of the switch calls visitDirectives on the
\* directive's own list
VisitsDirectivesOf ==
    {"If", "Else", "IfDef", "IfNotDef", "ElseIfDef", "ElseIfNotDef"}

\* the first object after position after that the list List holds, 0 if none
NextIn(T, List, after) ==
    IF \E i \in (after + 1)..Len(T) : T[i].List = List
    THEN CHOOSE i \in (after + 1)..Len(T) :
             T[i].List = List /\ \A j \in (after + 1)..(i - 1) : T[j].List # List
    ELSE 0

RECURSIVE VisitFrom(_, _, _)

\* one iteration of the loop of visitDirectives, on object i of List: the
\* hook of its kind, which returns true, then the directive's own list
VisitDirective(T, List, i) ==
    IF i = 0 THEN <<>>
    ELSE <<i>>
         \o (IF T[i].Kind \in VisitsDirectivesOf
             THEN VisitFrom(T, i, 0) ELSE <<>>)
         \o VisitFrom(T, List, i)

\* the loop of visitDirectives over List from the object after position after
VisitFrom(T, List, after) == VisitDirective(T, List, NextIn(T, List, after))

\* PPTreeVisitor::visitDirectives
visitDirectives(T, List) == VisitFrom(T, List, 0)

\* PPTreeVisitor::visit(Tree), as DirectiveMatchFinder::match calls it
visit ==
    /\ phase = "built"
    /\ Visited' = visitDirectives(Tree, 0)
    /\ phase' = "visited"
    /\ UNCHANGED <<Tree, DirectiveStack, Directives, ConditionalStack,
                   received, assertFailed>>
    /\ UNCHANGED vars
    /\ UNCHANGED macroToFunctionVars

InitTree ==
    /\ NoTracker
    /\ NoMatcher
    /\ NoCheck
    /\ NoTree

NextTree ==
    \/ PPTreeBuilderCallbacks_InclusionDirective
    \/ PPTreeBuilderCallbacks_Ident
    \/ PPTreeBuilderCallbacks_PragmaDirective
    \/ PPTreeBuilderCallbacks_PragmaComment
    \/ PPTreeBuilderCallbacks_PragmaMark
    \/ PPTreeBuilderCallbacks_PragmaDetectMismatch
    \/ PPTreeBuilderCallbacks_PragmaDebug
    \/ PPTreeBuilderCallbacks_PragmaMessage
    \/ PPTreeBuilderCallbacks_MacroDefined
    \/ PPTreeBuilderCallbacks_MacroUndefined
    \/ \E Taken \in BOOLEAN : PPTreeBuilderCallbacks_If(Taken)
    \/ \E Taken \in BOOLEAN : PPTreeBuilderCallbacks_Ifdef(Taken)
    \/ \E Taken \in BOOLEAN : PPTreeBuilderCallbacks_Ifndef(Taken)
    \/ PPTreeBuilderCallbacks_Else
    \/ \E Value \in BOOLEAN : PPTreeBuilderCallbacks_Elif(Value)
    \/ \E Taken \in BOOLEAN : PPTreeBuilderCallbacks_Elifdef(Taken)
    \/ \E Taken \in BOOLEAN : PPTreeBuilderCallbacks_Elifndef(Taken)
    \/ \E Kind \in {"ElifdefSkipped", "ElifndefSkipped"} : PPCallbacks_Elifdef(Kind)
    \/ PPTreeBuilderCallbacks_Endif
    \/ PPTreeBuilderCallbacks_EndOfMainFile
    \/ visit

SpecTree == InitTree /\ [][NextTree]_<<vars, macroToFunctionVars, treeVars>>

\* ------------------------------------------------------------------------
\* Claims about the directive tree
\* ------------------------------------------------------------------------
\* the objects of the tree in the order the callbacks created them
StoredDirectives == [i \in 1..Len(Tree) |-> i]

\* C38: PPTreeVisitor::visit calls a visit hook exactly once for every
\* directive stored in the tree, in the order the preprocessor's callbacks
\* were received, the directives stored in the list of an #elif included
C38_VisitReachesEveryDirectiveInOrder ==
    phase = "visited" => Visited = StoredDirectives

OpensBlock == {"If", "IfDef", "IfNotDef"}

ContinuesBlock == {"Else", "ElseIf", "ElseIfDef", "ElseIfNotDef", "EndIf"}

\* the number of objects of the kinds Kinds strictly between j and i
Between(T, j, i, Kinds) ==
    Cardinality({k \in (j + 1)..(i - 1) : T[k].Kind \in Kinds})

\* the directive that opened the block which directive i continues or ends
OpeningIf(T, i) ==
    CHOOSE j \in 1..(i - 1) :
        /\ T[j].Kind \in OpensBlock
        /\ Between(T, j, i, OpensBlock) = Between(T, j, i, {"EndIf"})
        /\ \A k \in (j + 1)..(i - 1) :
               T[k].Kind \in OpensBlock =>
                   Between(T, k, i, OpensBlock) # Between(T, k, i, {"EndIf"})

\* C39: after any well-nested sequence of directive callbacks DirectiveStack
\* is not empty, holds one list more than there are open conditional blocks,
\* Directives is DirectiveStack.back(), the assertion of popDirectiveStack
\* has not failed, and every #else, #elif, #elifdef, #elifndef and #endif
\* object is in the list that holds the directive which opened its block
C39_DirectiveStackFollowsOpenBlocks ==
    /\ DirectiveStack # <<>>
    /\ Len(DirectiveStack) = 1 + Len(ConditionalStack)
    /\ Directives = Back(DirectiveStack)
    /\ ~assertFailed
    /\ \A i \in 1..Len(Tree) :
           Tree[i].Kind \in ContinuesBlock =>
               Tree[i].List = Tree[OpeningIf(Tree, i)].List

\* an #if whose #elif branch is taken and holds a #define, then closed: the
\* #elif and the #endif are in the list of the #if, the #define in the
\* list of the #elif
C39_Witness ==
    /\ received = <<"If", "ElseIf", "MacroDefined", "EndIf">>
    /\ Tree = <<PPDirective("If", 0), PPDirective("ElseIf", 0),
                PPDirective("MacroDefined", 2), PPDirective("EndIf", 0)>>
    /\ DirectiveStack = <<0>>
    /\ phase = "built"
====
